---- MODULE Spec2Model ----
(***************************************************************************)
(* Model of the matching / ranking engine of the LinkedIn-Scraping-api     *)
(* repository: services/candidate_matcher.py (CandidateMatcher) and        *)
(* services/job_matcher.py (JobMatcher).                                   *)
(*                                                                         *)
(* Python values are modelled as tagged records (None, str, list); a dict  *)
(* is a function whose DOMAIN is the set of keys present.  Python strings   *)
(* are TLA+ strings, handled character by character with Len/SubSeq/\o.    *)
(* Floating-point factor scores are exact rationals [n, d] in lowest       *)
(* terms; the TF-IDF cosine is a fixed-point value (see CosineSimilarity). *)
(***************************************************************************)
EXTENDS Integers, Sequences, FiniteSets, TLC

(***************************************************************************)
(* Python values                                                           *)
(***************************************************************************)
None == [type |-> "NoneType"]
Str(s) == [type |-> "str", val |-> s]
List(l) == [type |-> "list", val |-> l]

IsNone(v) == v.type = "NoneType"
IsStr(v) == v.type = "str"
IsList(v) == v.type = "list"

\* Python truthiness: None, "" and [] are falsy.
Truthy(v) ==
    CASE IsNone(v) -> FALSE
      [] IsStr(v) -> v.val # ""
      [] IsList(v) -> Len(v.val) > 0

\* dict.get(key, default)
Get(d, key, default) == IF key \in DOMAIN d THEN d[key] ELSE default

\* x or y
Or(x, y) == IF Truthy(x) THEN x ELSE y

\* a list of str values
StrList(l) == List([i \in 1..Len(l) |-> Str(l[i])])

\* every item of the list value is a str
AllStr(v) == \A i \in 1..Len(v.val) : IsStr(v.val[i])

(***************************************************************************)
(* Python str methods                                                      *)
(***************************************************************************)
LowerMap ==
    [A |-> "a", B |-> "b", C |-> "c", D |-> "d", E |-> "e", F |-> "f",
     G |-> "g", H |-> "h", I |-> "i", J |-> "j", K |-> "k", L |-> "l",
     M |-> "m", N |-> "n", O |-> "o", P |-> "p", Q |-> "q", R |-> "r",
     S |-> "s", T |-> "t", U |-> "u", V |-> "v", W |-> "w", X |-> "x",
     Y |-> "y", Z |-> "z"]

Whitespace == {" ", "\t", "\n"}

WordChars ==
    {"a", "b", "c", "d", "e", "f", "g", "h", "i", "j", "k", "l", "m",
     "n", "o", "p", "q", "r", "s", "t", "u", "v", "w", "x", "y", "z",
     "0", "1", "2", "3", "4", "5", "6", "7", "8", "9", "_"}
        \cup DOMAIN LowerMap

CharAt(s, i) == SubSeq(s, i, i)

RECURSIVE lower(_)
\* str.lower()
lower(s) ==
    IF s = "" THEN ""
    ELSE IF Len(s) = 1
    THEN (IF s \in DOMAIN LowerMap THEN LowerMap[s] ELSE s)
    ELSE LET h == Len(s) \div 2
         IN  lower(SubSeq(s, 1, h)) \o lower(SubSeq(s, h + 1, Len(s)))

SetMin(S) == CHOOSE x \in S : \A y \in S : x <= y
SetMax(S) == CHOOSE x \in S : \A y \in S : x >= y

\* the k-th smallest member of the set of integers S
Kth(S, k) == CHOOSE x \in S : Cardinality({y \in S : y < x}) = k - 1

\* str.strip()
strip(s) ==
    LET keep == {i \in 1..Len(s) : CharAt(s, i) \notin Whitespace}
    IN  IF keep = {} THEN "" ELSE SubSeq(s, SetMin(keep), SetMax(keep))

\* s holds the word w at position i
WordAt(s, i, w) ==
    i >= 1 /\ i + Len(w) - 1 <= Len(s) /\ SubSeq(s, i, i + Len(w) - 1) = w

\* a in b, for two strings
In(a, b) ==
    \E i \in 0..(Len(b) - Len(a)) : SubSeq(b, i + 1, i + Len(a)) = a

\* the pieces of s between the characters of seps, empty pieces included
SplitOn(s, seps) ==
    LET cuts == {i \in 1..Len(s) : CharAt(s, i) \in seps}
        n == Cardinality(cuts)
        from(k) == IF k = 1 THEN 1 ELSE Kth(cuts, k - 1) + 1
        to(k) == IF k = n + 1 THEN Len(s) ELSE Kth(cuts, k) - 1
    IN  [k \in 1..(n + 1) |-> SubSeq(s, from(k), to(k))]

\* str.split(sep) for a one-character separator
split_sep(s, sep) == SplitOn(s, {sep})

\* str.split(): runs of whitespace separate, no empty pieces
split(s) == SelectSeq(SplitOn(s, Whitespace), LAMBDA w : w # "")

\* set(seq)
ToSet(seq) == {seq[i] : i \in 1..Len(seq)}

RECURSIVE join(_, _)
\* sep.join(seq)
join(sep, seq) ==
    IF Len(seq) = 0 THEN ""
    ELSE IF Len(seq) = 1 THEN seq[1]
    ELSE seq[1] \o sep \o join(sep, Tail(seq))

(***************************************************************************)
(* Exact rationals for float scores                                        *)
(***************************************************************************)
Abs(x) == IF x < 0 THEN -x ELSE x
Max2(a, b) == IF a >= b THEN a ELSE b
Min2(a, b) == IF a <= b THEN a ELSE b

RECURSIVE GCD(_, _)
GCD(a, b) == IF b = 0 THEN a ELSE GCD(b, a % b)

\* n/d in lowest terms, d > 0
Frac(n, d) ==
    LET g == GCD(Abs(n), d)
    IN  IF n = 0 THEN [n |-> 0, d |-> 1] ELSE [n |-> n \div g, d |-> d \div g]

FAdd(a, b) == Frac(a.n * b.d + b.n * a.d, a.d * b.d)
FMul(a, b) == Frac(a.n * b.n, a.d * b.d)
FLe(a, b) == a.n * b.d <= b.n * a.d
FLt(a, b) == a.n * b.d < b.n * a.d
FMin(a, b) == IF FLe(a, b) THEN a ELSE b
FMax(a, b) == IF FLe(a, b) THEN b ELSE a

Zero == Frac(0, 1)
One == Frac(1, 1)
Half == Frac(1, 2)

(***************************************************************************)
(* CandidateMatcher (services/candidate_matcher.py)                        *)
(***************************************************************************)
\* weights that do not sum to 1
weights_heavy ==
    [skills_match |-> Frac(60, 100), title_match |-> Frac(25, 100),
     experience_match |-> Frac(15, 100), summary_similarity |-> Frac(10, 100),
     location_match |-> Frac(10, 100)]

\* self.weights, in hundredths
weights ==
    [skills_match |-> Frac(40, 100), title_match |-> Frac(25, 100),
     experience_match |-> Frac(15, 100), summary_similarity |-> Frac(10, 100),
     location_match |-> Frac(10, 100)]

FactorNames ==
    <<"skills_match", "title_match", "experience_match",
      "summary_similarity", "location_match">>

Ret(score, explanation) == [score |-> score, explanation |-> explanation]

\* [x.lower().strip() for x in l.val]
LowerStripAll(l) == [i \in 1..Len(l.val) |-> strip(lower(l.val[i].val))]

\* the containment test in one direction only
AnyCandSkill_oneway(req_skill, cand, j) ==
    \E k \in j..Len(cand) : In(req_skill, cand[k])

\* the first candidate skill looked at is skipped
AnyCandSkill_skipfirst(req_skill, cand, j) ==
    \E k \in (j + 1)..Len(cand) :
        In(req_skill, cand[k]) \/ In(cand[k], req_skill)

RECURSIVE AnyCandSkill(_, _, _)
\* inner loop of _calculate_skills_match: does some candidate skill from
\* position j on contain req_skill or lie inside it
AnyCandSkill(req_skill, cand, j) ==
    IF j > Len(cand) THEN FALSE
    ELSE IF In(req_skill, cand[j]) \/ In(cand[j], req_skill) THEN TRUE
    ELSE AnyCandSkill(req_skill, cand, j + 1)

RECURSIVE MatchedSkills(_, _, _)
\* outer loop of _calculate_skills_match: the matched_skills list
MatchedSkills(req, cand, i) ==
    IF i > Len(req) THEN <<>>
    ELSE (IF AnyCandSkill(req[i], cand, 1) THEN <<req[i]>> ELSE <<>>)
             \o MatchedSkills(req, cand, i + 1)

\* the share taken of the candidate's skills instead of the required ones
_calculate_skills_match_cand_share(candidate_skills, required_skills) ==
    IF ~Truthy(required_skills) \/ ~Truthy(candidate_skills)
    THEN Ret(Zero, "No skills data available")
    ELSE IF ~AllStr(candidate_skills) \/ ~AllStr(required_skills)
    THEN Ret(Zero, "Error in skills matching")
    ELSE
        LET matched_skills ==
                MatchedSkills(LowerStripAll(required_skills),
                              LowerStripAll(candidate_skills), 1)
        IN  Ret(FMin(Frac(Len(matched_skills), Len(candidate_skills.val)),
                     One),
                "Skills match")

_calculate_skills_match(candidate_skills, required_skills) ==
    IF ~Truthy(required_skills) \/ ~Truthy(candidate_skills)
    THEN Ret(Zero, "No skills data available")
    ELSE IF ~AllStr(candidate_skills) \/ ~AllStr(required_skills)
    THEN Ret(Zero, "Error in skills matching")
    ELSE
        LET candidate_skills_lower == LowerStripAll(candidate_skills)
            required_skills_lower == LowerStripAll(required_skills)
            matched_skills ==
                MatchedSkills(required_skills_lower, candidate_skills_lower, 1)
            score == Frac(Len(matched_skills), Len(required_skills_lower))
        IN  Ret(FMin(score, One),
                "Skills match: " \o ToString(Len(matched_skills)) \o "/"
                    \o ToString(Len(required_skills_lower))
                    \o " required skills")

RECURSIVE TitleLoop_candwords(_, _, _, _, _)
\* the overlap divided by the number of words of the candidate's title
TitleLoop_candwords(candidate_title_lower, required_titles, i, best_match_score, best_match_title) ==
    IF i > Len(required_titles)
    THEN [exc |-> FALSE, score |-> best_match_score, title |-> best_match_title]
    ELSE IF ~IsStr(required_titles[i])
    THEN [exc |-> TRUE, score |-> best_match_score, title |-> best_match_title]
    ELSE
        LET req_title_lower == strip(lower(required_titles[i].val))
            candidate_words == ToSet(split(candidate_title_lower))
            required_words == ToSet(split(req_title_lower))
            overlap == Cardinality(candidate_words \cap required_words)
        IN  IF candidate_title_lower = req_title_lower
            THEN [exc |-> FALSE, score |-> One, title |-> required_titles[i].val]
            ELSE IF candidate_words # {} /\ required_words # {}
                    /\ FLt(best_match_score,
                           Frac(overlap, Cardinality(candidate_words)))
            THEN TitleLoop_candwords(candidate_title_lower, required_titles,
                     i + 1, Frac(overlap, Cardinality(candidate_words)),
                     required_titles[i].val)
            ELSE TitleLoop_candwords(candidate_title_lower, required_titles,
                     i + 1, best_match_score, best_match_title)

RECURSIVE TitleLoop(_, _, _, _, _)
\* the for loop of _calculate_title_match from position i on; exc is set
\* when an item that is not a str is reached (AttributeError on .lower())
TitleLoop(candidate_title_lower, required_titles, i, best_match_score, best_match_title) ==
    IF i > Len(required_titles)
    THEN [exc |-> FALSE, score |-> best_match_score, title |-> best_match_title]
    ELSE IF ~IsStr(required_titles[i])
    THEN [exc |-> TRUE, score |-> best_match_score, title |-> best_match_title]
    ELSE
        LET req_title == required_titles[i].val
            req_title_lower == strip(lower(req_title))
            candidate_words == ToSet(split(candidate_title_lower))
            required_words == ToSet(split(req_title_lower))
            overlap == Cardinality(candidate_words \cap required_words)
            total_words == Cardinality(required_words)
        IN  IF candidate_title_lower = req_title_lower
            THEN [exc |-> FALSE, score |-> One, title |-> req_title]
            ELSE IF candidate_words # {} /\ required_words # {}
                    /\ FLt(best_match_score, Frac(overlap, total_words))
            THEN TitleLoop(candidate_title_lower, required_titles, i + 1,
                           Frac(overlap, total_words), req_title)
            ELSE TitleLoop(candidate_title_lower, required_titles, i + 1,
                           best_match_score, best_match_title)

_calculate_title_match(candidate_title, required_titles) ==
    IF ~Truthy(required_titles) \/ ~Truthy(candidate_title)
    THEN Ret(Half, "No title data available")
    ELSE
        LET r == TitleLoop(strip(lower(candidate_title.val)),
                           required_titles.val, 1, Zero, "")
            explanation ==
                "Title match: '" \o candidate_title.val
                    \o "' vs required titles"
        IN  IF r.exc THEN Ret(Half, "Error in title matching")
            ELSE Ret(r.score,
                     IF r.title # ""
                     THEN explanation \o " (best match: '" \o r.title \o "')"
                     ELSE explanation)

\* exp_mapping.get(label, (3, 7))
exp_mapping(label) ==
    CASE label = "0 to 2 years" -> <<0, 2>>
      [] label = "2 to 6 years" -> <<2, 6>>
      [] label = "6 to 10 years" -> <<6, 10>>
      [] label = "more than 10 years" -> <<10, 20>>
      [] OTHER -> <<3, 7>>

RECURSIVE ExperienceLoop(_, _, _, _)
\* the for loop of _calculate_experience_match from position i on
ExperienceLoop(candidate_range, required_exp, i, best_match_score) ==
    IF i > Len(required_exp) THEN best_match_score
    ELSE
        LET req_range == exp_mapping(strip(lower(required_exp[i].val)))
            overlap_start == Max2(candidate_range[1], req_range[1])
            overlap_end == Min2(candidate_range[2], req_range[2])
            overlap_size == overlap_end - overlap_start
            req_range_size == req_range[2] - req_range[1]
        IN  IF overlap_end > overlap_start /\ req_range_size > 0
            THEN ExperienceLoop(candidate_range, required_exp, i + 1,
                     FMax(best_match_score, Frac(overlap_size, req_range_size)))
            ELSE ExperienceLoop(candidate_range, required_exp, i + 1,
                                best_match_score)

\* missing experience data scored 0
_calculate_experience_match_zero(candidate_exp, required_exp) ==
    IF ~Truthy(required_exp) \/ ~Truthy(candidate_exp)
    THEN Ret(Zero, "No experience data available")
    ELSE IF ~AllStr(required_exp)
    THEN Ret(Half, "Error in experience matching")
    ELSE Ret(FMin(ExperienceLoop(exp_mapping(strip(lower(candidate_exp.val))),
                                 required_exp.val, 1, Zero), One),
             "Experience match: " \o candidate_exp.val
                 \o " vs required levels")

_calculate_experience_match(candidate_exp, required_exp) ==
    IF ~Truthy(required_exp) \/ ~Truthy(candidate_exp)
    THEN Ret(Half, "No experience data available")
    ELSE IF ~AllStr(required_exp)
    THEN Ret(Half, "Error in experience matching")
    ELSE
        LET candidate_range == exp_mapping(strip(lower(candidate_exp.val)))
            best_match_score ==
                ExperienceLoop(candidate_range, required_exp.val, 1, Zero)
        IN  Ret(FMin(best_match_score, One),
                "Experience match: " \o candidate_exp.val
                    \o " vs required levels")

(***************************************************************************)
(* sklearn TfidfVectorizer(stop_words='english').fit_transform on a        *)
(* two-document corpus, followed by cosine_similarity                       *)
(***************************************************************************)
\* the members of sklearn's ENGLISH_STOP_WORDS that the texts of this model
\* can contain
StopWords ==
    {"an", "and", "the", "of", "in", "for", "with", "to", "at", "on", "is",
     "are", "we", "our", "you", "it", "as", "by", "or", "be", "this", "that",
     "from", "has", "have", "will", "can", "not", "who", "am"}

\* the maximal runs of \w characters of s, in order
WordRuns(s) ==
    LET IsWord(i) == i >= 1 /\ i <= Len(s) /\ CharAt(s, i) \in WordChars
        starts == {i \in 1..Len(s) : IsWord(i) /\ ~IsWord(i - 1)}
        ends == {i \in 1..Len(s) : IsWord(i) /\ ~IsWord(i + 1)}
    IN  [k \in 1..Cardinality(starts) |->
            SubSeq(s, Kth(starts, k), Kth(ends, k))]

\* the analyzer: lower-case, tokens matching \b\w\w+\b, stop words removed
Tokens(text) ==
    SelectSeq(WordRuns(lower(text)),
              LAMBDA w : Len(w) >= 2 /\ w \notin StopWords)

\* the word bigrams of a token sequence (ngram_range = (1, 2))
Bigrams(toks) ==
    [i \in 1..(IF Len(toks) = 0 THEN 0 ELSE Len(toks) - 1) |->
        toks[i] \o " " \o toks[i + 1]]

\* the n-grams of a token sequence up to size ngram_max (1 or 2)
NGrams(toks, ngram_max) ==
    IF ngram_max = 1 THEN toks ELSE toks \o Bigrams(toks)

\* the terms of a document for the given upper n-gram size
Terms(text, ngram_max) == NGrams(Tokens(text), ngram_max)

\* term frequency
TermCount(terms, t) == Cardinality({i \in 1..Len(terms) : terms[i] = t})

RECURSIVE SumOver(_, _)
\* the sum of f[t] over the terms of set S
SumOver(S, f) ==
    IF S = {} THEN 0
    ELSE LET t == CHOOSE u \in S : TRUE IN f[t] + SumOver(S \ {t}, f)

RECURSIVE SqrtSearch(_, _, _)
\* the least r in lo..hi with r * r >= x
SqrtSearch(x, lo, hi) ==
    IF lo >= hi THEN lo
    ELSE LET mid == (lo + hi) \div 2
         IN  IF mid * mid >= x THEN SqrtSearch(x, lo, mid)
             ELSE SqrtSearch(x, mid + 1, hi)

\* the least r with r * r >= x, for x below 2^31 (46340 squared is the
\* largest square below it)
CeilSqrt(x) == SqrtSearch(x, 0, Min2(x, 46340))

\* smooth idf over two documents, ln(3 / (1 + df)) + 1, in tenths:
\* 1.405... for a term of one document, 1.0 for a term of both
Idf10(df) == IF df = 2 THEN 10 ELSE 14

\* the number of the two documents (term sets sa, sb) that hold each term
DocumentFrequency(sa, sb) ==
    [t \in sa \cup sb |->
        (IF t \in sa THEN 1 ELSE 0) + (IF t \in sb THEN 1 ELSE 0)]

\* the tf-idf weight (in tenths) of every vocabulary term in a document
TfidfWeights(terms, df) ==
    [t \in DOMAIN df |-> TermCount(terms, t) * Idf10(df[t])]

\* the dot product of two weight vectors over the same vocabulary
DotProduct(wa, wb) == SumOver(DOMAIN wa, [t \in DOMAIN wa |-> wa[t] * wb[t]])

\* dot / (|a| |b|) in hundredths (truncated), from dot, |a|^2 and |b|^2
CosineOfNorms(dot, na, nb) ==
    IF na = 0 \/ nb = 0 THEN 0 ELSE (100 * dot) \div CeilSqrt(na * nb)

\* cosine_similarity of two rows of the tf-idf matrix
CosineOfWeights(wa, wb) ==
    CosineOfNorms(DotProduct(wa, wb), DotProduct(wa, wa), DotProduct(wb, wb))

\* fit_transform and cosine_similarity for the term lists of the documents
CosineOfTerms(ta, tb, df) ==
    IF DOMAIN df = {} THEN [empty |-> TRUE, sim |-> 0]
    ELSE [empty |-> FALSE,
          sim |-> CosineOfWeights(TfidfWeights(ta, df), TfidfWeights(tb, df))]

\* the similarity of two term lists
TermsSimilarity(ta, tb) ==
    CosineOfTerms(ta, tb, DocumentFrequency(ToSet(ta), ToSet(tb)))

\* The similarity of the two documents in hundredths (truncated), or the flag
\* empty when no term is left (fit_transform raises ValueError).
CosineSimilarity(doc_a, doc_b, ngram_max) ==
    TermsSimilarity(Terms(doc_a, ngram_max), Terms(doc_b, ngram_max))

\* f"{x:.2f}" for x = h / 100 >= 0
Format2f(h) ==
    ToString(h \div 100) \o "." \o ToString((h % 100) \div 10)
        \o ToString(h % 10)

\* the return value for the similarity r; fit_transform raising ValueError
\* is caught by the except clause
SummaryResult(r) ==
    IF r.empty THEN Ret(Zero, "Error in summary matching")
    ELSE Ret(Frac(r.sim, 100),
             "Summary similarity: " \o Format2f(r.sim)
                 \o " based on keyword overlap")

_calculate_summary_similarity(candidate_summary, job_keywords) ==
    IF strip(candidate_summary) = "" \/ strip(job_keywords) = ""
    THEN Ret(Zero, "No summary data available")
    ELSE SummaryResult(CosineSimilarity(lower(candidate_summary),
                                        lower(job_keywords), 1))

\* {part.strip() for part in s.split(',') if part.strip()}
LocationParts(s) ==
    {strip(p) : p \in {q \in ToSet(split_sep(s, ",")) : strip(q) # ""}}

RECURSIVE LocationLoop(_, _, _, _)
\* the for loop of _calculate_location_match from position i on: kind is
\* "return" when the loop body returns, "exc" when an item that is not a str
\* is reached, "end" when the loop runs to its end
LocationLoop(candidate_location, candidate_location_lower, required_locations, i) ==
    IF i > Len(required_locations)
    THEN [kind |-> "end", ret |-> Ret(Zero, "")]
    ELSE IF ~IsStr(required_locations[i])
    THEN [kind |-> "exc", ret |-> Ret(Zero, "")]
    ELSE
        LET req_location_lower == strip(lower(required_locations[i].val))
            candidate_parts == LocationParts(candidate_location_lower)
            required_parts == LocationParts(req_location_lower)
            overlap == Cardinality(candidate_parts \cap required_parts)
        IN  IF candidate_location_lower = req_location_lower
            THEN [kind |-> "return",
                  ret |-> Ret(One, "Location match: " \o candidate_location)]
            ELSE IF candidate_parts # {} /\ required_parts # {} /\ overlap > 0
            THEN [kind |-> "return",
                  ret |-> Ret(Frac(overlap, Cardinality(required_parts)),
                              "Partial location match: "
                                  \o candidate_location)]
            ELSE LocationLoop(candidate_location, candidate_location_lower,
                              required_locations, i + 1)

_calculate_location_match(candidate_location, required_locations) ==
    IF ~Truthy(required_locations) \/ ~Truthy(candidate_location)
    THEN Ret(Half, "No location data available")
    ELSE
        LET candidate_location_lower == strip(lower(candidate_location.val))
            r == LocationLoop(candidate_location.val,
                              candidate_location_lower,
                              required_locations.val, 1)
        IN  CASE r.kind = "return" -> r.ret
              [] r.kind = "exc" -> Ret(Half, "Error in location matching")
              [] OTHER ->
                    IF In("remote", candidate_location_lower)
                       /\ \E i \in 1..Len(required_locations.val) :
                             In("remote", lower(required_locations.val[i].val))
                    THEN Ret(One, "Remote work match")
                    ELSE Ret(Frac(2, 10),
                             "Location mismatch: " \o candidate_location.val)

Float(f) == [type |-> "float", val |-> f]

\* The five factor results of _calculate_match_score in the order they are
\* computed, or exc when evaluating an argument raises: list + list and
\* str + str need both operands of that type, ' '.join needs a list of str.
MatchFactors(candidate, job_requirements) ==
    LET job_skills == Get(job_requirements, "skills", List(<<>>))
        job_keywords == Get(job_requirements, "keywords", List(<<>>))
        summary == Get(candidate, "summary", Str(""))
        headline == Get(candidate, "headline", Str(""))
        all_keywords ==
            Get(job_requirements, "all_extracted_keywords", List(<<>>))
    IN  IF ~IsList(job_skills) \/ ~IsList(job_keywords)
           \/ ~IsStr(summary) \/ ~IsStr(headline)
           \/ ~IsList(all_keywords) \/ ~AllStr(all_keywords)
        THEN [exc |-> TRUE, results |-> <<>>]
        ELSE [exc |-> FALSE,
              results |->
                <<_calculate_skills_match(
                      Get(candidate, "skills", List(<<>>)),
                      List(job_skills.val \o job_keywords.val)),
                  _calculate_title_match(
                      Or(Get(candidate, "current_title", Str("")),
                         Get(candidate, "default_position_title", Str(""))),
                      Get(job_requirements, "job_titles", List(<<>>))),
                  _calculate_experience_match(
                      Get(candidate, "years_of_experience", Str("")),
                      Get(job_requirements, "experience_level", List(<<>>))),
                  _calculate_summary_similarity(
                      summary.val \o " " \o headline.val,
                      join(" ", [i \in 1..Len(all_keywords.val) |->
                                    all_keywords.val[i].val])),
                  _calculate_location_match(
                      Get(candidate, "location", Str("")),
                      Get(job_requirements, "location", List(<<>>)))>>]

RECURSIVE WeightedSum(_, _)
\* sum(scores[key] * self.weights[key] for key in scores), from factor i on
WeightedSum(results, i) ==
    IF i > Len(results) THEN Zero
    ELSE FAdd(FMul(results[i].score, weights[FactorNames[i]]),
              WeightedSum(results, i + 1))

\* the total score and the explanation for the factor results f
TotalAndExplanation(f) ==
    IF f.exc THEN Ret(Zero, "Error calculating match score")
    ELSE Ret(FMul(WeightedSum(f.results, 1), Frac(100, 1)),
             join("; ",
                  SelectSeq([i \in 1..Len(f.results) |->
                                f.results[i].explanation],
                            LAMBDA e : e # "")))

_calculate_match_score(candidate, job_requirements) ==
    TotalAndExplanation(MatchFactors(candidate, job_requirements))

\* round(x, 2): the nearest hundredth, ties to the even one
Round2(x) ==
    LET q == (x.n * 100) \div x.d
        r == (x.n * 100) % x.d
    IN  IF 2 * r < x.d THEN Frac(q, 100)
        ELSE IF 2 * r > x.d THEN Frac(q + 1, 100)
        ELSE IF q % 2 = 0 THEN Frac(q, 100)
        ELSE Frac(q + 1, 100)

RECURSIVE InsertDesc_unstable(_, _)
\* x put before the items of equal key
InsertDesc_unstable(sorted, x) ==
    IF Len(sorted) = 0 THEN <<x>>
    ELSE IF FLe(Head(sorted).key, x.key) THEN <<x>> \o sorted
    ELSE <<Head(sorted)>> \o InsertDesc_unstable(Tail(sorted), x)

RECURSIVE InsertDesc(_, _)
\* the pair x put into the descending list of [key, item] pairs after every
\* pair whose key is not smaller
InsertDesc(sorted, x) ==
    IF Len(sorted) = 0 THEN <<x>>
    ELSE IF FLt(Head(sorted).key, x.key) THEN <<x>> \o sorted
    ELSE <<Head(sorted)>> \o InsertDesc(Tail(sorted), x)

RECURSIVE SortPairs(_, _)
\* the first i pairs, sorted
SortPairs(pairs, i) ==
    IF i = 0 THEN <<>>
    ELSE InsertDesc(SortPairs(pairs, i - 1), pairs[i])

\* list.sort(key=..., reverse=True) and sorted(..., key=..., reverse=True),
\* keys[i] being the key of items[i]: a stable sort, items of equal key keep
\* their order
SortDesc(items, keys) ==
    LET pairs == [i \in 1..Len(items) |-> [key |-> keys[i], item |-> items[i]]]
        sorted == SortPairs(pairs, Len(pairs))
    IN  [i \in 1..Len(sorted) |-> sorted[i].item]

\* candidate.copy() with match_score and match_explanation set from the
\* result r of _calculate_match_score
WithScore(candidate, r) ==
    [k \in DOMAIN candidate \cup {"match_score", "match_explanation"} |->
        CASE k = "match_score" -> Float(Round2(r.score))
          [] k = "match_explanation" -> Str(r.explanation)
          [] OTHER -> candidate[k]]

\* the loop body of rank_candidates
ScoredCopy(candidate, job_requirements) ==
    WithScore(candidate, _calculate_match_score(candidate, job_requirements))

\* scored_candidates.sort(key=lambda x: x['match_score'], reverse=True)
SortByMatchScore(scored_candidates) ==
    SortDesc(scored_candidates,
             [i \in 1..Len(scored_candidates) |->
                 scored_candidates[i]["match_score"].val])

rank_candidates(candidates, job_requirements) ==
    SortByMatchScore([i \in 1..Len(candidates) |->
                         ScoredCopy(candidates[i], job_requirements)])

(***************************************************************************)
(* JobMatcher (services/job_matcher.py); its scores are on the 0..100      *)
(* scale.  ResumeData and JobResult are pydantic models: their str fields  *)
(* are TLA+ strings and their List[str] fields sequences of strings.       *)
(***************************************************************************)
job_weights ==
    [skills_match |-> Frac(4, 10), title_match |-> Frac(25, 100),
     description_similarity |-> Frac(2, 10), experience_level |-> Frac(1, 10),
     keyword_match |-> Frac(5, 100)]

Hundred == Frac(100, 1)

\* f"{job.title} {job.description}".lower()
JobText(job) == lower(job.title \o " " \o job.description)

\* the number of items of l that, lower-cased, occur in text
CountIn(l, text) == Cardinality({i \in 1..Len(l) : In(lower(l[i]), text)})

job_calculate_skills_match(resume_skills, job) ==
    IF Len(resume_skills) = 0 THEN Zero
    ELSE
        LET matched_skills == CountIn(resume_skills, JobText(job))
            match_percentage ==
                FMul(Frac(matched_skills, Len(resume_skills)), Hundred)
        IN  FMin(Hundred,
                 IF matched_skills >= 5
                 THEN FMul(match_percentage, Frac(12, 10))
                 ELSE IF matched_skills >= 3
                 THEN FMul(match_percentage, Frac(11, 10))
                 ELSE match_percentage)

job_keywords_list ==
    <<"engineer", "developer", "analyst", "manager", "director",
      "senior", "junior", "lead", "principal", "staff",
      "software", "data", "product", "project", "technical",
      "full stack", "backend", "frontend", "devops", "qa">>

_extract_job_keywords(text) ==
    SelectSeq(job_keywords_list, LAMBDA keyword : In(keyword, lower(text)))

RECURSIVE Flatten(_)
\* the concatenation of a sequence of sequences
Flatten(ss) == IF Len(ss) = 0 THEN <<>> ELSE Head(ss) \o Flatten(Tail(ss))

job_calculate_title_match(resume_titles, job_title) ==
    LET job_title_lower == lower(job_title)
        resume_titles_lower ==
            [i \in 1..Len(resume_titles) |-> lower(resume_titles[i])]
        job_keywords == _extract_job_keywords(job_title_lower)
        resume_keywords ==
            Flatten([i \in 1..Len(resume_titles_lower) |->
                        _extract_job_keywords(resume_titles_lower[i])])
        common_keywords == ToSet(job_keywords) \cap ToSet(resume_keywords)
    IN  IF Len(resume_titles) = 0 THEN Frac(50, 1)
        ELSE IF \E i \in 1..Len(resume_titles_lower) :
                    \/ In(resume_titles_lower[i], job_title_lower)
                    \/ In(job_title_lower, resume_titles_lower[i])
        THEN Hundred
        ELSE IF Len(job_keywords) = 0 \/ Len(resume_keywords) = 0
        THEN Frac(30, 1)
        ELSE FMin(Hundred,
                  FMul(Frac(Cardinality(common_keywords), Len(job_keywords)),
                       Hundred))

\* the resume text that _calculate_description_similarity joins together
ResumeText(resume) ==
    join(" ", <<join(" ", resume.skills), join(" ", resume.job_titles),
               join(" ", resume.keywords), join(" ", resume.education),
               join(" ", resume.certifications)>>)

\* similarity * 100, or 30.0 when fit_transform raises ValueError
DescriptionResult(r) == IF r.empty THEN Frac(30, 1) ELSE Frac(r.sim, 1)

\* the test for empty texts left out
TextSimilarity_noguard(resume_text, description) ==
    DescriptionResult(CosineSimilarity(resume_text, description, 2))

\* the body of _calculate_description_similarity for the joined resume text;
\* self.vectorizer has ngram_range = (1, 2)
TextSimilarity(resume_text, description) ==
    IF strip(resume_text) = "" \/ strip(description) = ""
    THEN Frac(30, 1)
    ELSE DescriptionResult(CosineSimilarity(resume_text, description, 2))

_calculate_description_similarity(resume, job) ==
    TextSimilarity(ResumeText(resume), job.description)

level_names == <<"entry", "mid", "senior", "executive">>

level_keywords ==
    [entry |-> {"entry", "junior", "associate", "graduate", "intern",
                "0-2 years"},
     mid |-> {"mid", "intermediate", "2-5 years", "3-7 years"},
     senior |-> {"senior", "lead", "principal", "5+ years", "7+ years"},
     executive |-> {"director", "vp", "cto", "ceo", "executive", "head of"}]

_level_to_number(level) ==
    CASE level = "entry" -> 1
      [] level = "mid" -> 2
      [] level = "senior" -> 3
      [] level = "executive" -> 4
      [] OTHER -> 2

\* the first level, in dict order, one of whose keywords occurs in the job
\* text; 'mid' when there is none
DetectJobLevel(job_text) ==
    LET hits == {i \in 1..Len(level_names) :
                    \E keyword \in level_keywords[level_names[i]] :
                        In(keyword, job_text)}
    IN  IF hits = {} THEN "mid"
        ELSE level_names[CHOOSE i \in hits : \A j \in hits : i <= j]

job_calculate_experience_match(resume_level, job) ==
    LET job_level == DetectJobLevel(JobText(job))
    IN  IF resume_level = job_level THEN Hundred
        ELSE IF Abs(_level_to_number(resume_level)
                        - _level_to_number(job_level)) = 1
        THEN Frac(70, 1)
        ELSE Frac(30, 1)

_calculate_keyword_match(resume_keywords, job) ==
    IF Len(resume_keywords) = 0 THEN Frac(50, 1)
    ELSE FMul(Frac(CountIn(resume_keywords, JobText(job)),
                   Len(resume_keywords)),
              Hundred)

\* the weighted total without the experience score
job_total_score_noexp(skills_score, title_score, desc_score, exp_score, keyword_score) ==
    FAdd(FMul(skills_score, job_weights.skills_match),
    FAdd(FMul(title_score, job_weights.title_match),
    FAdd(FMul(desc_score, job_weights.description_similarity),
         FMul(keyword_score, job_weights.keyword_match))))

\* the weighted total of the five scores
job_total_score(skills_score, title_score, desc_score, exp_score, keyword_score) ==
    FAdd(FMul(skills_score, job_weights.skills_match),
    FAdd(FMul(title_score, job_weights.title_match),
    FAdd(FMul(desc_score, job_weights.description_similarity),
    FAdd(FMul(exp_score, job_weights.experience_level),
         FMul(keyword_score, job_weights.keyword_match)))))

job_calculate_match_score(resume, job) ==
    FMin(Hundred,
         job_total_score(
             job_calculate_skills_match(resume.skills, job),
             job_calculate_title_match(resume.job_titles, job.title),
             _calculate_description_similarity(resume, job),
             job_calculate_experience_match(resume.experience_level, job),
             _calculate_keyword_match(resume.keywords, job)))

RECURSIVE MatchedKeywords(_, _, _)
\* the second loop of _get_matched_keywords over the keywords from i on
MatchedKeywords(keywords, job_text, matched) ==
    IF Len(keywords) = 0 THEN matched
    ELSE MatchedKeywords(Tail(keywords), job_text,
             IF In(lower(Head(keywords)), job_text)
                /\ Head(keywords) \notin ToSet(matched)
             THEN Append(matched, Head(keywords))
             ELSE matched)

_get_matched_keywords(resume, job) ==
    LET job_text == JobText(job)
        matched ==
            MatchedKeywords(resume.keywords, job_text,
                SelectSeq(resume.skills, LAMBDA skill : In(lower(skill), job_text)))
    IN  SubSeq(matched, 1, Min2(Len(matched), 10))

\* the alternatives of skill_patterns (node\.?js stands for two strings)
skill_patterns ==
    {"python", "java", "javascript", "react", "angular", "vue", "nodejs",
     "node.js", "express", "django", "flask",
     "aws", "azure", "gcp", "docker", "kubernetes", "jenkins", "git",
     "mysql", "postgresql", "mongodb", "redis", "elasticsearch",
     "machine learning", "data science", "ai", "ml", "nlp", "deep learning",
     "agile", "scrum", "devops", "ci/cd", "microservices", "api"}

\* a occurs in text between two word boundaries (\b a \b)
WordIn(a, text) ==
    \E i \in 0..(Len(text) - Len(a)) :
        /\ SubSeq(text, i + 1, i + Len(a)) = a
        /\ i = 0 \/ CharAt(text, i) \notin WordChars
        /\ i + Len(a) = Len(text) \/ CharAt(text, i + Len(a) + 1) \notin WordChars

\* list(set(skills)): the distinct matches; the order of the list is that of
\* a Python set and is not modelled
_extract_job_skills(job_description) ==
    {a \in skill_patterns : WordIn(a, lower(job_description))}

\* the job after the loop body of rank_jobs has set its three fields
ScoredJob(resume_data, job) ==
    [job EXCEPT !.match_score = job_calculate_match_score(resume_data, job),
                !.matched_keywords = _get_matched_keywords(resume_data, job),
                !.required_skills = _extract_job_skills(job.description)]

\* rank_jobs: the jobs of the list are updated in place (jobs) and the
\* sorted list of them is returned (ret)
\* the updated jobs and sorted(jobs, key=lambda x: x.match_score, reverse=True)
JobsAndRanking(scored) ==
    [jobs |-> scored,
     ret |-> SortDesc(scored, [i \in 1..Len(scored) |-> scored[i].match_score])]

rank_jobs(resume_data, jobs) ==
    IF Len(jobs) = 0 THEN [jobs |-> jobs, ret |-> <<>>]
    ELSE JobsAndRanking([i \in 1..Len(jobs) |->
                            ScoredJob(resume_data, jobs[i])])

(***************************************************************************)
(* Inputs                                                                  *)
(***************************************************************************)
MaxCandSkills == 2
MaxReqSkills == 3
MaxTitles == 2
MaxLevels == 2
MaxLocations == 2
MaxCandidates == 3

\* the sequences over S of length at most n
SeqsUpTo(S, n) == UNION {[1..k -> S] : k \in 0..n}

\* the list values with at most n items of S, and None (a null field)
ListsUpTo(S, n) == {List(l) : l \in SeqsUpTo(S, n)} \cup {None}

StrsOf(S) == {Str(x) : x \in S}

SkillItems == StrsOf({"Python", "AWS", "Docker", " Python Django "}) \cup {None}

TitleItems ==
    StrsOf({"", "Software Engineer II", "Senior Software Engineer",
            " software engineer", "Data Analyst"}) \cup {None}

CandidateTitles ==
    StrsOf({"", "  ", "Senior Software Engineer", "Software Engineer II",
            "software engineer", "Senior Data Analyst"}) \cup {None}

LevelItems ==
    StrsOf({"0 to 2 years", "2 to 6 years", "6 to 10 years",
            "More than 10 years", "3 to 5 years"}) \cup {None}

CandidateLevels ==
    StrsOf({"", "0 to 2 years", "2 to 6 years", "6 to 10 years",
            "More than 10 years", "5 years"}) \cup {None}

LocationItems ==
    StrsOf({"Boston, USA", "NYC, USA", "Remote",
            "Remote, NYC, Boston, Austin, Denver, Seattle"}) \cup {None}

CandidateLocations ==
    StrsOf({"", "Boston, USA", "boston", "Remote, USA", "Remote", "Seattle",
            "Fully remote", "Paris"}) \cup {None}

SummaryTexts ==
    {"", "  ", "Python developer", "Python AWS", "python aws python",
     "AWS and Docker engineer with Python", "the and of", "C"}

\* a key that the dict does not have
Absent == [type |-> "absent"]

\* the dict with the keys of r whose value is not Absent
MakeDict(r) == [k \in {x \in DOMAIN r : r[x] # Absent} |-> r[k]]

\* candidate profiles as CrustDataAPI.format_candidate_profile shapes them
\* (any field of the upstream record may be null or missing)
CandidateProfiles ==
    {MakeDict([skills |-> s, current_title |-> t,
               default_position_title |-> dt, years_of_experience |-> e,
               summary |-> su, headline |-> h, location |-> l]) :
        s \in {Absent, None, StrList(<<"Python">>),
               StrList(<<"AWS", " Python Django ">>),
               List(<<Str("Python"), None>>)},
        t \in {None, Str("Senior Software Engineer")},
        dt \in {Absent, Str("Software Engineer II")},
        e \in {None, Str("2 to 6 years")},
        su \in {Absent, None, Str("Python developer")},
        h \in {Absent, Str("AWS and Docker engineer")},
        l \in {None, Str("Remote, USA")}}

\* job requirements as the find-candidates handlers build them
JobRequirements ==
    {MakeDict([skills |-> s, keywords |-> k, job_titles |-> t,
               experience_level |-> e, all_extracted_keywords |-> a,
               location |-> l]) :
        s \in {Absent, None, StrList(<<"Python", "AWS", "Docker">>)},
        k \in {Absent, StrList(<<"Python">>)},
        t \in {Absent, StrList(<<"Software Engineer II">>)},
        e \in {StrList(<<"6 to 10 years", "2 to 6 years">>)},
        a \in {Absent, StrList(<<"Python", "AWS">>), List(<<None>>)},
        l \in {StrList(<<"NYC, USA", "Remote">>)}}

\* the candidates that the lists given to rank_candidates are made of: two
\* profiles that differ in the name only, a stronger one, a weaker one and
\* one whose scoring fails
RankPool ==
    {[name |-> Str("Ann"), skills |-> StrList(<<"Python">>)],
     [name |-> Str("Bob"), skills |-> StrList(<<"Python">>)],
     [name |-> Str("Cy"), skills |-> StrList(<<"Python", "AWS">>),
      current_title |-> Str("Software Engineer II")],
     [name |-> Str("Di"), skills |-> List(<<>>), location |-> Str("Paris")],
     [name |-> Str("Ed"), skills |-> StrList(<<"Python", "AWS">>),
      summary |-> None]}

RankRequirements ==
    {[skills |-> StrList(<<"Python", "AWS">>),
      job_titles |-> StrList(<<"Software Engineer II">>),
      location |-> StrList(<<"Remote">>)],
     [skills |-> StrList(<<"Docker">>)],
     [skills |-> None]}

MaxJobs == 2

ResumeData(skills, experience_level, job_titles, keywords) ==
    [skills |-> skills, experience_level |-> experience_level,
     job_titles |-> job_titles, keywords |-> keywords,
     education |-> <<>>, certifications |-> <<>>]

JobResult(title, company, description) ==
    [title |-> title, company |-> company, description |-> description,
     required_skills |-> {}, match_score |-> Zero, matched_keywords |-> <<>>]

ResumePool ==
    {ResumeData(<<"Python", "React", "AWS", "Docker">>, "senior",
                <<"Software Engineer", "Senior Developer">>,
                <<"api", "microservices", "agile">>),
     ResumeData(<<"Python", "React", "AWS", "Docker", "Git">>, "mid",
                <<"Data Analyst">>, <<>>),
     ResumeData(<<"C">>, "executive", <<"Chef">>, <<"Python">>),
     ResumeData(<<>>, "entry", <<>>, <<>>)}

JobPool ==
    {JobResult("Senior Python Developer", "Tech Corp",
               "Looking for experienced Python developer with AWS knowledge"),
     JobResult("Data Analyst", "Void Inc", " "),
     JobResult("React Frontend Developer", "StartupXYZ",
               "Frontend developer needed for React applications"),
     JobResult("Data Analyst", "Empty Inc", " "),
     JobResult("Intern", "Tiny LLC", "C"),
     JobResult("Sales Manager", "Motors Ltd", "Sell cars")}

(***************************************************************************)
(* ResumeEmbeddingService, GoogleDriveService and PineconeService          *)
(***************************************************************************)
\* what a call gives its caller: a value, or an exception with its str(e)
Ok(value) == [raised |-> FALSE, value |-> value]
Raised(error) == [raised |-> TRUE, error |-> error]

\* hashlib.md5(s).hexdigest()[:8] of the file names and contents in use
Md5Prefix(s) ==
    CASE s = "a.pdf" -> "49b732e3"
      [] s = "b.docx" -> "f5cf5c39"
      [] s = "notes.txt" -> "a5d5286f"
      [] s = "x" -> "9dd4e461"
      [] s = "y" -> "41529076"

\* ResumeEmbeddingService.generate_resume_id
generate_resume_id(file_name, file_content) ==
    "resume_" \o Md5Prefix(file_name) \o "_" \o Md5Prefix(file_content)

\* file_name.lower().split('.')[-1]
FileExtension(parts) == parts[Len(parts)]

\* ResumeEmbeddingService.generate_embedding: one request to the embedding
\* service, which fails its first `failures` requests and then answers
\* with `vector`; the exception of a failed request is raised again
generate_embedding(failures, vector) ==
    IF failures > 0 THEN Raised("embedding request failed") ELSE Ok(vector)

\* ResumeEmbeddingService.process_resume; full_text is what the extractor
\* got out of the content ("" when it failed), embedding is what
\* generate_embedding gave.  Of the metadata only drive_url and file_name
\* are kept; the parsed fields are carried along in the same way.
process_resume(file_name, file_content, drive_url, full_text, embedding) ==
    IF FileExtension(split_sep(lower(file_name), "."))
          \notin {"pdf", "docx", "doc"}
    THEN Raised("Unsupported file type: "
                \o FileExtension(split_sep(lower(file_name), ".")))
    ELSE IF strip(full_text) = ""
    THEN Raised("No text could be extracted from the file")
    ELSE IF embedding.raised THEN embedding
    ELSE Ok([id |-> generate_resume_id(file_name, file_content),
             embedding |-> embedding.value,
             metadata |-> [drive_url |-> drive_url,
                           file_name |-> file_name]])

\* the attempt cap of GoogleDriveService.download_file_content
max_retries == 3

RECURSIVE DownloadLoop(_, _, _, _)
\* the retry loop of download_file_content for the cap `retries` from
\* attempt `attempt` on, when the Drive API fails its first `failures`
\* requests: a failed attempt is followed by a wait of (attempt + 1) * 2
\* seconds and the next attempt, and the last attempt's exception is
\* raised; a loop that ends without a return gives None.  returns names
\* the type of the value returned
DownloadLoop(retries, failures, file_content, attempt) ==
    IF attempt >= retries
    THEN [raised |-> FALSE, value |-> None, returns |-> "None",
          attempts |-> attempt, waited |-> attempt * (attempt + 1)]
    ELSE IF attempt >= failures
    THEN [raised |-> FALSE, value |-> file_content, returns |-> "bytes",
          attempts |-> attempt + 1, waited |-> attempt * (attempt + 1)]
    ELSE IF attempt < retries - 1
    THEN DownloadLoop(retries, failures, file_content, attempt + 1)
    ELSE [raised |-> TRUE, error |-> "download request failed",
          attempts |-> attempt + 1, waited |-> attempt * (attempt + 1)]

\* the loop with the default cap
DownloadAttempt(failures, file_content, attempt) ==
    DownloadLoop(max_retries, failures, file_content, attempt)

\* GoogleDriveService.download_file_content(file_id, max_retries=retries)
download_file_content_retries(is_available, retries, failures, file_content) ==
    IF ~is_available
    THEN [raised |-> TRUE, error |-> "Google Drive service not available",
          attempts |-> 0, waited |-> 0]
    ELSE DownloadLoop(retries, failures, file_content, 0)

\* GoogleDriveService.download_file_content(file_id)
download_file_content(is_available, failures, file_content) ==
    download_file_content_retries(is_available, max_retries, failures,
                                  file_content)

\* GoogleDriveService.get_shareable_link: the file's webViewLink, "" when
\* the request failed
get_shareable_link(file_id, link_ok) ==
    IF link_ok THEN "https://drive.google.com/file/d/" \o file_id \o "/view"
    ELSE ""

\* Pinecone's index.upsert(vectors) that adds the vectors and keeps what was
\* stored under their ids
RECURSIVE index_upsert_keep(_, _)
index_upsert_keep(idx, vectors) ==
    IF vectors = <<>> THEN idx
    ELSE index_upsert_keep(idx \cup {Head(vectors)}, Tail(vectors))

RECURSIVE index_upsert(_, _)
\* Pinecone's index.upsert(vectors) as the services call it: the vectors
\* are written in order, each one replacing the record stored under its id
index_upsert(idx, vectors) ==
    IF vectors = <<>> THEN idx
    ELSE index_upsert({r \in idx : r.id # Head(vectors).id}
                         \cup {Head(vectors)},
                      Tail(vectors))

\* the record PineconeService writes for a processed resume
Vector(resume_id, embedding, metadata) ==
    [id |-> resume_id, values |-> embedding, metadata |-> metadata]

\* PineconeService.upsert_resume; a failed request writes nothing and its
\* exception is raised again
upsert_resume(idx, resume_id, embedding, metadata, pinecone_ok) ==
    IF pinecone_ok
    THEN [index |-> index_upsert(idx, <<Vector(resume_id, embedding,
                                               metadata)>>),
          raised |-> FALSE]
    ELSE [index |-> idx, raised |-> TRUE, error |-> "upsert request failed"]

\* the default batch_size of PineconeService.batch_upsert_resumes
upsert_batch_size == 100

\* a batch upsert that writes the first resume of each request only
BatchUpsertLoop_one(idx, resumes, i, failing_request) ==
    IF resumes = <<>> THEN [index |-> idx, raised |-> FALSE]
    ELSE [index |-> index_upsert(idx,
                       <<Vector(resumes[1].id, resumes[1].embedding,
                                resumes[1].metadata)>>),
          raised |-> FALSE]

RECURSIVE BatchUpsertLoop(_, _, _, _)
\* the loop of batch_upsert_resumes from offset i on; request number
\* failing_request (0 for none) fails, which ends the loop
BatchUpsertLoop(idx, resumes, i, failing_request) ==
    IF i >= Len(resumes) THEN [index |-> idx, raised |-> FALSE]
    ELSE IF failing_request = i \div upsert_batch_size + 1
    THEN [index |-> idx, raised |-> TRUE, error |-> "upsert request failed"]
    ELSE BatchUpsertLoop(
             index_upsert(idx,
                 [k \in 1..Min2(upsert_batch_size, Len(resumes) - i) |->
                     Vector(resumes[i + k].id, resumes[i + k].embedding,
                            resumes[i + k].metadata)]),
             resumes, i + upsert_batch_size, failing_request)

\* PineconeService.batch_upsert_resumes
batch_upsert_resumes(idx, resumes, failing_request) ==
    BatchUpsertLoop(idx, resumes, 0, failing_request)

\* the embedding vectors of resumes and of job descriptions
Vectors == {"v1", "v2"}
QueryVectors == {"q1", "q2", "q3"}

\* the cosine similarity of a resume vector to a query vector, in units
\* of 0.00001
Cosine5(query, values) ==
    CASE query = "q1" /\ values = "v1" -> 89996
      [] query = "q1" /\ values = "v2" -> 90000
      [] query = "q2" /\ values = "v1" -> 59994
      [] query = "q2" /\ values = "v2" -> 59994
      [] query = "q3" /\ values = "v1" -> 75310
      [] query = "q3" /\ values = "v2" -> 0 - 1204

\* the score Pinecone reports for a record
Score(query, r) == Frac(Cosine5(query, r.values), 100000)

\* a match of Pinecone's query response
Match(query, r) ==
    [id |-> r.id, score |-> Score(query, r), metadata |-> r.metadata]

\* Pinecone's index.query(vector, top_k) that answers with every record
index_query_all(idx, query, top_k) ==
    {[i \in 1..Cardinality(idx) |-> Match(query, m[i])] :
        m \in {s \in [1..Cardinality(idx) -> idx] :
                  /\ \A i, j \in DOMAIN s : i < j =>
                        /\ s[i] # s[j]
                        /\ FLe(Score(query, s[j]), Score(query, s[i]))}}

\* Pinecone's index.query(vector, top_k, include_metadata=True): the top_k
\* records nearest to the vector, nearest first; records of equal score
\* come in either order, so this is the set of the possible answers
index_query(idx, query, top_k) ==
    {[i \in 1..Min2(top_k, Cardinality(idx)) |-> Match(query, m[i])] :
        m \in {s \in [1..Min2(top_k, Cardinality(idx)) -> idx] :
                  /\ \A i, j \in DOMAIN s : i < j =>
                        /\ s[i] # s[j]
                        /\ FLe(Score(query, s[j]), Score(query, s[i]))
                  /\ \A r \in idx : \A i \in DOMAIN s :
                        r \in {s[k] : k \in DOMAIN s}
                        \/ FLe(Score(query, r), Score(query, s[i]))}}

\* PineconeService.search_similar_resumes, given Pinecone's answer
search_similar_resumes(matches) ==
    [i \in 1..Len(matches) |->
        [id |-> matches[i].id, score |-> matches[i].score,
         metadata |-> matches[i].metadata]]

(***************************************************************************)
(* ResumeManager                                                           *)
(***************************************************************************)
\* str.endswith(ext) for one of the extensions
EndsWithAny(s, exts) ==
    \E ext \in exts :
        /\ Len(s) >= Len(ext)
        /\ SubSeq(s, Len(s) - Len(ext) + 1, Len(s)) = ext

\* ResumeManager._is_supported_file_type
_is_supported_file_type(file_name) ==
    EndsWithAny(lower(file_name), {".pdf", ".docx", ".doc"})

\* the dictionary upload_resume_from_file returns when it caught e
UploadFailed(idx, file_name, google_drive_url, error) ==
    [index |-> idx,
     upserted |-> <<>>,
     ret |-> [success |-> FALSE, resume_id |-> None,
              file_name |-> file_name,
              google_drive_url |-> google_drive_url,
              message |-> "Failed to upload resume: " \o error,
              error |-> error]]

\* an upload that reports success whatever the upsert request gave
UploadUpserted_ignore(idx, file_name, google_drive_url, p, u) ==
    [index |-> u.index,
     upserted |-> <<Vector(p.id, p.embedding, p.metadata)>>,
     ret |-> [success |-> TRUE, resume_id |-> Str(p.id),
              file_name |-> file_name,
              google_drive_url |-> google_drive_url]]

\* upload_resume_from_file after the upsert request u for resume p
UploadUpserted(idx, file_name, google_drive_url, p, u) ==
    IF u.raised
    THEN UploadFailed(idx, file_name, google_drive_url, u.error)
    ELSE [index |-> u.index,
          upserted |-> <<Vector(p.id, p.embedding, p.metadata)>>,
          ret |-> [success |-> TRUE, resume_id |-> Str(p.id),
                   file_name |-> file_name,
                   google_drive_url |-> google_drive_url]]

\* upload_resume_from_file after process_resume gave p
UploadProcessed(idx, file_name, google_drive_url, p, pinecone_ok) ==
    IF p.raised
    THEN UploadFailed(idx, file_name, google_drive_url, p.error)
    ELSE UploadUpserted(idx, file_name, google_drive_url, p.value,
             upsert_resume(idx, p.value.id, p.value.embedding,
                           p.value.metadata, pinecone_ok))

\* ResumeManager.upload_resume_from_file: the index it leaves, the vectors
\* it wrote and the dictionary it returns
upload_resume_from_file(idx, file_content, file_name, google_drive_url, full_text, embedding, pinecone_ok) ==
    IF ~_is_supported_file_type(file_name)
    THEN UploadFailed(idx, file_name, google_drive_url,
           "Unsupported file type. Only PDF and DOCX files are supported.")
    ELSE UploadProcessed(idx, file_name, google_drive_url,
             process_resume(file_name, file_content,
                 IF Truthy(google_drive_url) THEN google_drive_url.val
                 ELSE "direct_upload_" \o file_name,
                 full_text, embedding),
             pinecone_ok)

\* ResumeManager._process_single_resume, given what download_file_content
\* gave; its exception is raised again
_process_single_resume(file_info, downloaded, link_ok, full_text, embedding) ==
    IF downloaded.raised THEN Raised(downloaded.error)
    ELSE process_resume(file_info.name, downloaded.value,
                        get_shareable_link(file_info.id, link_ok),
                        full_text, embedding)

\* ResumeManager._generate_match_explanation
_generate_match_explanation(score) ==
    IF FLe(Frac(9, 10), score)
    THEN "Excellent match - Strong alignment with job requirements"
    ELSE IF FLe(Frac(8, 10), score)
    THEN "Very good match - Most requirements align well"
    ELSE IF FLe(Frac(7, 10), score)
    THEN "Good match - Several key requirements match"
    ELSE IF FLe(Frac(6, 10), score)
    THEN "Moderate match - Some relevant experience"
    ELSE "Basic match - Limited alignment with requirements"

\* the candidate find_matching_candidates builds for a match
MatchCandidate(match) ==
    [id |-> match.id,
     resume_url |-> match.metadata.drive_url,
     file_name |-> match.metadata.file_name,
     match_score |-> Float(Round2(FMul(match.score, Frac(100, 1)))),
     match_explanation |-> _generate_match_explanation(match.score)]

\* find_matching_candidates after search_similar_resumes gave matches
FoundCandidates(matches) ==
    Ok([candidates |-> [i \in 1..Len(matches) |-> MatchCandidate(matches[i])],
        total_found |-> Len(matches)])

\* ResumeManager.find_matching_candidates, given what generate_embedding
\* gave for the job description and what Pinecone answered to the query;
\* an exception of either is raised again
find_matching_candidates(job_embedding, answer) ==
    IF job_embedding.raised THEN job_embedding
    ELSE IF answer.raised THEN answer
    ELSE FoundCandidates(search_similar_resumes(answer.value))

\* the batch_size of ingest_all_resumes
batch_size == 5

\* a batch that takes every file from offset i on
InBatch_all(j, i) == i < j

\* batch = resume_files[i:i + batch_size]: the file at position j (from 1)
\* is in the batch that starts at offset i
InBatch(j, i) == i < j /\ j <= i + batch_size

\* the pool size of ResumeManager.executor
max_workers == 5

\* the failed_files of ingest_all_resumes that records the first failure of
\* a batch only
RECURSIVE FailedFiles_first(_, _, _)
FailedFiles_first(batch, batch_results, j) ==
    IF j > Len(batch) THEN <<>>
    ELSE IF batch_results[j].raised
    THEN <<[name |-> batch[j].name, error |-> batch_results[j].error]>>
    ELSE FailedFiles_first(batch, batch_results, j + 1)

RECURSIVE FailedFiles(_, _, _)
\* what the loop over batch_results appends to failed_files from j on
FailedFiles(batch, batch_results, j) ==
    IF j > Len(batch) THEN <<>>
    ELSE IF batch_results[j].raised
    THEN <<[name |-> batch[j].name, error |-> batch_results[j].error]>>
         \o FailedFiles(batch, batch_results, j + 1)
    ELSE FailedFiles(batch, batch_results, j + 1)

RECURSIVE ProcessedResumes(_, _)
\* what the loop over batch_results appends to processed_resumes from j on
ProcessedResumes(batch_results, j) ==
    IF j > Len(batch_results) THEN <<>>
    ELSE IF batch_results[j].raised
    THEN ProcessedResumes(batch_results, j + 1)
    ELSE <<batch_results[j].value>> \o ProcessedResumes(batch_results, j + 1)

\* the summary ingest_all_resumes returns
IngestionReport(resume_files, processed_resumes, failed_files) ==
    [success |-> TRUE,
     total_files |-> Len(resume_files),
     processed |-> Len(processed_resumes),
     failed |-> Len(failed_files),
     failed_files |-> failed_files]

\* the summary ingest_all_resumes returns when the folder lists no file
EmptyReport ==
    [success |-> TRUE, total_files |-> 0, processed |-> 0, failed |-> 0,
     message |-> "No resume files found in folder"]

(***************************************************************************)
(* Inputs of the resume services                                           *)
(***************************************************************************)
MaxTopK == 3
MaxBatch == 2
MaxFailures == 3
MaxFiles == 6
MaxEmployers == 2
MaxRetries == 4

\* uploaded files: two resumes under one name, one under another name and a
\* file of a type that is not supported
Documents ==
    {[file_name |-> "a.pdf", file_content |-> "x"],
     [file_name |-> "a.pdf", file_content |-> "y"],
     [file_name |-> "b.docx", file_content |-> "x"],
     [file_name |-> "notes.txt", file_content |-> "x"]}

\* the google_drive_url of an upload
DriveUrls == {None, Str("https://drive.google.com/file/d/F1/view")}

\* what text extraction gets out of a file: nothing, or its text
ExtractedTexts == {"", "resume text"}

\* what generate_embedding gives for a text
EmbeddingReplies ==
    {generate_embedding(failures, vector) :
        failures \in 0..MaxFailures, vector \in Vectors}

\* what generate_embedding gives for a text whose embedding is vector
EmbeddingRepliesFor(vector) ==
    {generate_embedding(failures, vector) : failures \in 0..MaxFailures}

\* what download_file_content gives for a file of the folder
DownloadReplies(file_content) ==
    {IF r.raised THEN Raised(r.error) ELSE Ok(r.value) :
        r \in {download_file_content(TRUE, failures, file_content) :
                  failures \in 0..MaxFailures}}

\* processed resumes as _process_single_resume gives them to the batch
\* upsert
ProcessedPool ==
    {process_resume(d.file_name, d.file_content,
                    get_shareable_link("F1", TRUE), "resume text",
                    Ok(vector)).value :
        d \in {x \in Documents : _is_supported_file_type(x.file_name)},
        vector \in Vectors}

\* the Drive folder: the files list_resume_files finds, in its order, with
\* the content a download gives and the vector the embedding service gives
\* for the resume.  The third file is a copy of the first one.
DriveFolder ==
    <<[id |-> "F1", name |-> "a.pdf", file_content |-> "x", vector |-> "v1"],
      [id |-> "F2", name |-> "b.docx", file_content |-> "x", vector |-> "v2"],
      [id |-> "F3", name |-> "a.pdf", file_content |-> "x", vector |-> "v2"],
      [id |-> "F4", name |-> "a.pdf", file_content |-> "y", vector |-> "v1"],
      [id |-> "F5", name |-> "b.docx", file_content |-> "y", vector |-> "v2"],
      [id |-> "F6", name |-> "notes.txt", file_content |-> "x",
       vector |-> "v1"],
      [id |-> "F7", name |-> "b.docx", file_content |-> "y", vector |-> "v1"],
      [id |-> "F8", name |-> "a.pdf", file_content |-> "y", vector |-> "v2"]>>

\* the file_info dictionaries of the first n files of the folder
ListedFiles(n) ==
    [j \in 1..n |-> [id |-> DriveFolder[j].id, name |-> DriveFolder[j].name]]

\* the index when an ingestion starts: one resume was uploaded earlier
UploadedIndex ==
    {Vector(generate_resume_id("a.pdf", "x"), "v2",
            [drive_url |-> "direct_upload_a.pdf", file_name |-> "a.pdf"])}

\* the characters of a file id: [a-zA-Z0-9-_]
IdChars == WordChars \cup {"-"}

\* group 1 of re.search(marker + '([a-zA-Z0-9-_]+)', url), "" for no match
SearchId(url, marker) ==
    LET hits == {i \in 1..Len(url) :
                    /\ WordAt(url, i, marker)
                    /\ i + Len(marker) <= Len(url)
                    /\ CharAt(url, i + Len(marker)) \in IdChars}
        from == SetMin(hits) + Len(marker)
    IN  IF hits = {} THEN ""
        ELSE SubSeq(url, from,
                    SetMin({j \in from..Len(url) :
                               j = Len(url)
                                  \/ CharAt(url, j + 1) \notin IdChars}))

\* ResumeManager._extract_file_id_from_url: the first pattern that matches
_extract_file_id_from_url(url) ==
    IF SearchId(url, "/file/d/") # "" THEN Str(SearchId(url, "/file/d/"))
    ELSE IF SearchId(url, "id=") # "" THEN Str(SearchId(url, "id="))
    ELSE IF SearchId(url, "/d/") # "" THEN Str(SearchId(url, "/d/"))
    ELSE None

\* the dictionary upload_single_resume_by_url returns when it caught e
SingleUploadFailed(idx, file_name, error) ==
    [index |-> idx,
     upserted |-> <<>>,
     ret |-> [success |-> FALSE, resume_id |-> None,
              file_name |-> IF Truthy(file_name) THEN file_name.val
                            ELSE "unknown",
              message |-> "Failed to upload resume: " \o error,
              error |-> error]]

\* upload_single_resume_by_url after the upsert request u for resume p
SingleUploadUpserted(idx, file_name, actual_file_name, p, u) ==
    IF u.raised THEN SingleUploadFailed(idx, file_name, u.error)
    ELSE [index |-> u.index,
          upserted |-> <<Vector(p.id, p.embedding, p.metadata)>>,
          ret |-> [success |-> TRUE, resume_id |-> Str(p.id),
                   file_name |-> actual_file_name]]

\* upload_single_resume_by_url after _process_single_resume gave p
SingleUploadProcessed(idx, file_name, actual_file_name, p, pinecone_ok) ==
    IF p.raised THEN SingleUploadFailed(idx, file_name, p.error)
    ELSE SingleUploadUpserted(idx, file_name, actual_file_name, p.value,
             upsert_resume(idx, p.value.id, p.value.embedding,
                           p.value.metadata, pinecone_ok))

\* upload_single_resume_by_url once the name of the file is known
SingleUploadNamed(idx, file_id, file_name, actual_file_name, downloaded, link_ok, full_text, embedding, pinecone_ok) ==
    IF ~_is_supported_file_type(actual_file_name)
    THEN SingleUploadFailed(idx, file_name,
           "Unsupported file type. Only PDF and DOCX files are supported.")
    ELSE SingleUploadProcessed(idx, file_name, actual_file_name,
             _process_single_resume([id |-> file_id, name |-> actual_file_name],
                                    downloaded, link_ok, full_text, embedding),
             pinecone_ok)

\* ResumeManager.upload_single_resume_by_url: the index it leaves, the
\* vectors it wrote and the dictionary it returns; file_info is what the
\* metadata request gave, the name of the file or an exception
upload_single_resume_by_url(idx, google_drive_url, file_name, file_info, downloaded, link_ok, full_text, embedding, pinecone_ok) ==
    IF IsNone(_extract_file_id_from_url(google_drive_url))
    THEN SingleUploadFailed(idx, file_name, "Invalid Google Drive URL format")
    ELSE IF file_info.raised
    THEN SingleUploadFailed(idx, file_name, file_info.error)
    ELSE SingleUploadNamed(idx, _extract_file_id_from_url(google_drive_url).val,
             file_name,
             IF Truthy(file_name) THEN file_name.val ELSE file_info.value,
             downloaded, link_ok, full_text, embedding, pinecone_ok)

\* the URLs and file names of an upload by URL and what the metadata
\* request gives
UploadUrls ==
    {"https://drive.google.com/file/d/F1/view",
     "https://drive.google.com/open?id=F1",
     "https://example.com/resume.pdf"}

UploadFileNames == {None, Str("b.docx"), Str("notes.txt")}

FileInfos == {Ok("a.pdf"), Raised("metadata request failed")}

VARIABLES call, index, run

vars == <<call, index, run>>

Idle == [op |-> "idle"]

\* no ingestion is running
NoRun == [pc |-> "idle"]

Init == call = Idle /\ index = {} /\ run = NoRun

\* one call of CandidateMatcher._calculate_skills_match
CalculateSkillsMatch ==
    /\ call = Idle
    /\ \E candidate_skills \in ListsUpTo(SkillItems, MaxCandSkills),
          required_skills \in ListsUpTo(SkillItems, MaxReqSkills) :
          call' = [op |-> "_calculate_skills_match",
                   candidate_skills |-> candidate_skills,
                   required_skills |-> required_skills,
                   ret |-> _calculate_skills_match(candidate_skills,
                                                   required_skills)]
    /\ UNCHANGED <<index, run>>

\* one call of CandidateMatcher._calculate_title_match
CalculateTitleMatch ==
    /\ call = Idle
    /\ \E candidate_title \in CandidateTitles,
          required_titles \in ListsUpTo(TitleItems, MaxTitles) :
          call' = [op |-> "_calculate_title_match",
                   candidate_title |-> candidate_title,
                   required_titles |-> required_titles,
                   ret |-> _calculate_title_match(candidate_title,
                                                  required_titles)]
    /\ UNCHANGED <<index, run>>

\* one call of CandidateMatcher._calculate_experience_match
CalculateExperienceMatch ==
    /\ call = Idle
    /\ \E candidate_exp \in CandidateLevels,
          required_exp \in ListsUpTo(LevelItems, MaxLevels) :
          call' = [op |-> "_calculate_experience_match",
                   candidate_exp |-> candidate_exp,
                   required_exp |-> required_exp,
                   ret |-> _calculate_experience_match(candidate_exp,
                                                       required_exp)]
    /\ UNCHANGED <<index, run>>

\* one call of CandidateMatcher._calculate_summary_similarity
CalculateSummarySimilarity ==
    /\ call = Idle
    /\ \E candidate_summary \in SummaryTexts, job_keywords \in SummaryTexts :
          call' = [op |-> "_calculate_summary_similarity",
                   candidate_summary |-> candidate_summary,
                   job_keywords |-> job_keywords,
                   ret |-> _calculate_summary_similarity(candidate_summary,
                                                         job_keywords)]
    /\ UNCHANGED <<index, run>>

\* one call of CandidateMatcher._calculate_location_match
CalculateLocationMatch ==
    /\ call = Idle
    /\ \E candidate_location \in CandidateLocations,
          required_locations \in ListsUpTo(LocationItems, MaxLocations) :
          call' = [op |-> "_calculate_location_match",
                   candidate_location |-> candidate_location,
                   required_locations |-> required_locations,
                   ret |-> _calculate_location_match(candidate_location,
                                                     required_locations)]
    /\ UNCHANGED <<index, run>>

\* one call of CandidateMatcher._calculate_match_score
CalculateMatchScore ==
    /\ call = Idle
    /\ \E candidate \in CandidateProfiles,
          job_requirements \in JobRequirements :
          call' = [op |-> "_calculate_match_score",
                   candidate |-> candidate,
                   job_requirements |-> job_requirements,
                   ret |-> _calculate_match_score(candidate,
                                                  job_requirements)]
    /\ UNCHANGED <<index, run>>

\* one call of CandidateMatcher.rank_candidates
RankCandidates ==
    /\ call = Idle
    /\ \E candidates \in SeqsUpTo(RankPool, MaxCandidates),
          job_requirements \in RankRequirements :
          call' = [op |-> "rank_candidates",
                   candidates |-> candidates,
                   job_requirements |-> job_requirements,
                   ret |-> rank_candidates(candidates, job_requirements)]
    /\ UNCHANGED <<index, run>>

\* one call of JobMatcher._calculate_description_similarity
CalculateDescriptionSimilarity ==
    /\ call = Idle
    /\ \E resume \in ResumePool, job \in JobPool :
          call' = [op |-> "_calculate_description_similarity",
                   resume |-> resume,
                   job |-> job,
                   ret |-> _calculate_description_similarity(resume, job)]
    /\ UNCHANGED <<index, run>>

\* one call of JobMatcher.rank_jobs; jobs_in is the list as it was given
RankJobs ==
    /\ call = Idle
    /\ \E resume_data \in ResumePool, jobs \in SeqsUpTo(JobPool, MaxJobs) :
          LET r == rank_jobs(resume_data, jobs)
          IN  call' = [op |-> "rank_jobs",
                       resume_data |-> resume_data,
                       jobs_in |-> jobs,
                       jobs |-> r.jobs,
                       ret |-> r.ret]
    /\ UNCHANGED <<index, run>>

\* the call returns to its caller
Return ==
    /\ call # Idle
    /\ call' = Idle
    /\ UNCHANGED <<index, run>>

Next ==
    \/ CalculateSkillsMatch
    \/ CalculateTitleMatch
    \/ CalculateExperienceMatch
    \/ CalculateSummarySimilarity
    \/ CalculateLocationMatch
    \/ CalculateMatchScore
    \/ RankCandidates
    \/ CalculateDescriptionSimilarity
    \/ RankJobs
    \/ Return

Spec == Init /\ [][Next]_vars

(***************************************************************************)
(* The resume services, one call at a time against the Pinecone index      *)
(***************************************************************************)
\* one call of ResumeManager.upload_resume_from_file
UploadResumeFromFile ==
    /\ call = Idle
    /\ \E d \in Documents, google_drive_url \in DriveUrls,
          full_text \in ExtractedTexts, embedding \in EmbeddingReplies,
          pinecone_ok \in BOOLEAN :
          LET r == upload_resume_from_file(index, d.file_content,
                       d.file_name, google_drive_url, full_text, embedding,
                       pinecone_ok)
          IN  /\ call' = [op |-> "upload_resume_from_file",
                          file_name |-> d.file_name,
                          file_content |-> d.file_content,
                          google_drive_url |-> google_drive_url,
                          before |-> index,
                          upserted |-> r.upserted,
                          ret |-> r.ret]
              /\ index' = r.index
    /\ UNCHANGED run

\* one call of PineconeService.batch_upsert_resumes, as an ingestion makes
\* it with the resumes it processed
BatchUpsertResumes ==
    /\ call = Idle
    /\ \E resumes \in SeqsUpTo(ProcessedPool, MaxBatch),
          failing_request \in 0..1 :
          LET r == batch_upsert_resumes(index, resumes, failing_request)
          IN  /\ call' = [op |-> "batch_upsert_resumes",
                          resumes |-> resumes,
                          before |-> index,
                          upserted |->
                              IF r.raised THEN <<>>
                              ELSE [k \in 1..Len(resumes) |->
                                       Vector(resumes[k].id,
                                              resumes[k].embedding,
                                              resumes[k].metadata)],
                          ret |-> [raised |-> r.raised]]
              /\ index' = r.index
    /\ UNCHANGED run

\* one call of ResumeManager.find_matching_candidates
FindMatchingCandidates ==
    /\ call = Idle
    /\ \E top_k \in 1..MaxTopK, query \in QueryVectors,
          failures \in 0..MaxFailures :
          \E answer \in {Raised("query request failed")}
                        \cup {Ok(m) : m \in index_query(index, query, top_k)} :
              call' = [op |-> "find_matching_candidates",
                       top_k |-> top_k,
                       job_embedding |-> generate_embedding(failures, query),
                       ret |-> find_matching_candidates(
                                   generate_embedding(failures, query),
                                   answer)]
    /\ UNCHANGED <<index, run>>

\* one call of GoogleDriveService.download_file_content
DownloadFileContent ==
    /\ call = Idle
    /\ \E is_available \in BOOLEAN, failures \in 0..MaxFailures,
          j \in 1..2 :
          call' = [op |-> "download_file_content",
                   is_available |-> is_available,
                   failures |-> failures,
                   file_id |-> DriveFolder[j].id,
                   ret |-> download_file_content(is_available, failures,
                               DriveFolder[j].file_content)]
    /\ UNCHANGED <<index, run>>

\* one call of ResumeEmbeddingService.generate_embedding
GenerateEmbedding ==
    /\ call = Idle
    /\ \E failures \in 0..MaxFailures, vector \in Vectors :
          call' = [op |-> "generate_embedding",
                   failures |-> failures,
                   vector |-> vector,
                   ret |-> generate_embedding(failures, vector)]
    /\ UNCHANGED <<index, run>>

\* one call of ResumeManager.upload_single_resume_by_url
UploadSingleResumeByUrl ==
    /\ call = Idle
    /\ \E google_drive_url \in UploadUrls, file_name \in UploadFileNames,
          file_info \in FileInfos, downloaded \in DownloadReplies("x"),
          full_text \in ExtractedTexts, embedding \in EmbeddingReplies,
          pinecone_ok \in BOOLEAN :
          LET r == upload_single_resume_by_url(index, google_drive_url,
                       file_name, file_info, downloaded, TRUE, full_text,
                       embedding, pinecone_ok)
          IN  /\ call' = [op |-> "upload_single_resume_by_url",
                          google_drive_url |-> google_drive_url,
                          file_name |-> file_name,
                          before |-> index,
                          upserted |-> r.upserted,
                          ret |-> r.ret]
              /\ index' = r.index
    /\ UNCHANGED run

NextResumes ==
    \/ UploadResumeFromFile
    \/ UploadSingleResumeByUrl
    \/ BatchUpsertResumes
    \/ FindMatchingCandidates
    \/ DownloadFileContent
    \/ GenerateEmbedding
    \/ Return

SpecResumes == Init /\ [][NextResumes]_vars

(***************************************************************************)
(* One run of ResumeManager.ingest_all_resumes, step by step               *)
(***************************************************************************)
\* the result slot of a document whose coroutine has not finished
NoResult == [raised |-> FALSE, value |-> None]

\* the run after list_resume_files gave resume_files
Listed(resume_files) ==
    IF resume_files = <<>>
    THEN [pc |-> "returned", resume_files |-> resume_files, i |-> 0,
          status |-> <<>>, results |-> <<>>,
          processed_resumes |-> <<>>, failed_files |-> <<>>,
          out |-> EmptyReport]
    ELSE [pc |-> "gather", resume_files |-> resume_files, i |-> 0,
          status |-> [j \in 1..Len(resume_files) |-> "waiting"],
          results |-> [j \in 1..Len(resume_files) |-> NoResult],
          processed_resumes |-> <<>>, failed_files |-> <<>>,
          out |-> None]

\* the run when list_resume_files raised: the exception is raised again
ListingFailed(error) ==
    [pc |-> "raised", resume_files |-> <<>>, i |-> 0,
     status |-> <<>>, results |-> <<>>,
     processed_resumes |-> <<>>, failed_files |-> <<>>,
     out |-> Str(error)]

InitIngest == call = Idle /\ index = UploadedIndex /\ run = NoRun

\* the handler starts: it lists the folder
IngestAllResumes ==
    /\ run = NoRun
    /\ \E n \in 0..MaxFiles, listing_ok \in BOOLEAN :
          run' = IF listing_ok THEN Listed(ListedFiles(n))
                 ELSE ListingFailed("listing request failed")
    /\ UNCHANGED <<call, index>>

\* a document of the current batch gets a worker of the executor
StartDocument ==
    /\ run.pc = "gather"
    /\ \E j \in DOMAIN run.status :
          /\ InBatch(j, run.i)
          /\ run.status[j] = "waiting"
          /\ Cardinality({k \in DOMAIN run.status :
                             run.status[k] = "running"}) < max_workers
          /\ run' = [run EXCEPT !.status[j] = "running"]
    /\ UNCHANGED <<call, index>>

\* _process_single_resume of a running document finishes, with a resume or
\* with an exception
FinishDocument ==
    /\ run.pc = "gather"
    /\ \E j \in DOMAIN run.status :
          /\ run.status[j] = "running"
          /\ \E downloaded \in DownloadReplies(DriveFolder[j].file_content),
                link_ok \in BOOLEAN, full_text \in ExtractedTexts,
                embedding \in EmbeddingRepliesFor(DriveFolder[j].vector) :
                run' = [run EXCEPT
                          !.status[j] = "done",
                          !.results[j] =
                              _process_single_resume(run.resume_files[j],
                                  downloaded, link_ok, full_text, embedding)]
    /\ UNCHANGED <<call, index>>

\* gather returns when every document of the batch is done; the results are
\* collected and the next batch starts, or the loop ends
CollectBatch ==
    /\ run.pc = "gather"
    /\ \A j \in DOMAIN run.status : InBatch(j, run.i) => run.status[j] = "done"
    /\ run' = [run EXCEPT
                 !.processed_resumes = @ \o ProcessedResumes(
                     SubSeq(run.results, run.i + 1,
                            Min2(run.i + batch_size, Len(run.results))), 1),
                 !.failed_files = @ \o FailedFiles(
                     SubSeq(run.resume_files, run.i + 1,
                            Min2(run.i + batch_size, Len(run.results))),
                     SubSeq(run.results, run.i + 1,
                            Min2(run.i + batch_size, Len(run.results))), 1),
                 !.i = @ + batch_size,
                 !.pc = IF run.i + batch_size >= Len(run.resume_files)
                        THEN "upsert" ELSE "gather"]
    /\ UNCHANGED <<call, index>>

\* the run after the batch upsert request u (or none, when no resume was
\* processed): the summary is returned, or the exception is raised again
Upserted(r, raised, error) ==
    IF raised THEN [r EXCEPT !.pc = "raised", !.out = Str(error)]
    ELSE [r EXCEPT !.pc = "returned",
                   !.out = IngestionReport(r.resume_files,
                               r.processed_resumes, r.failed_files)]

\* the processed resumes are upserted and the handler ends
UpsertProcessed ==
    /\ run.pc = "upsert"
    /\ IF run.processed_resumes = <<>>
       THEN /\ run' = Upserted(run, FALSE, "")
            /\ index' = index
       ELSE \E failing_request \in 0..1 :
               LET u == batch_upsert_resumes(index, run.processed_resumes,
                                             failing_request)
               IN  /\ run' = Upserted(run, u.raised,
                                      "upsert request failed")
                   /\ index' = u.index
    /\ UNCHANGED call

NextIngest ==
    \/ IngestAllResumes
    \/ StartDocument
    \/ FinishDocument
    \/ CollectBatch
    \/ UpsertProcessed

SpecIngest == InitIngest /\ [][NextIngest]_vars

(***************************************************************************)
(* Construction of the services                                            *)
(***************************************************************************)
\* the credentials the environment may hold
Credentials ==
    {"PINECONE_API_KEY", "CRUSTDATA_API_TOKEN", "OPENAI_API_KEY",
     "GOOGLE_DRIVE_CREDENTIALS_PATH"}

\* PineconeService.__init__ with _initialize_pinecone: the exception of a
\* missing key is raised again
PineconeService_init(env) ==
    IF "PINECONE_API_KEY" \notin env
    THEN Raised("PINECONE_API_KEY not found in environment variables")
    ELSE Ok([index_name |-> "resume"])

\* GoogleDriveService.__init__ with _initialize_service: the exception of
\* missing credentials is caught and the service is marked unavailable
GoogleDriveService_init(env) ==
    Ok([is_available |-> "GOOGLE_DRIVE_CREDENTIALS_PATH" \in env])

\* OpenAIJobParser.__init__ of openai_job_parser.py
OpenAIJobParser_init(env) ==
    IF "OPENAI_API_KEY" \notin env
    THEN Raised("OPENAI_API_KEY environment variable is required")
    ELSE Ok([client |-> TRUE])

\* CrustDataAPI.__init__, which builds its OpenAIJobParser
CrustDataAPI_init(env) ==
    IF "CRUSTDATA_API_TOKEN" \notin env
    THEN Raised("CRUSTDATA_API_TOKEN environment variable is required")
    ELSE IF OpenAIJobParser_init(env).raised THEN OpenAIJobParser_init(env)
    ELSE Ok([api_token |-> TRUE])

\* GoogleDriveService.list_resume_files: an unavailable service lists no
\* file; the exception of a failed request is raised again
list_resume_files(is_available, files, listing_ok) ==
    IF ~is_available THEN Ok(<<>>)
    ELSE IF listing_ok THEN Ok(files)
    ELSE Raised("listing request failed")

\* what ingest_all_resumes returns for a folder that lists no file, and
\* what it does otherwise
IngestOfListing(listing) ==
    IF listing.raised THEN listing
    ELSE IF listing.value = <<>> THEN Ok(EmptyReport)
    ELSE Ok([success |-> TRUE, total_files |-> Len(listing.value)])

\* the services after construction from the environment, and what the
\* first ingest_all_resumes over a folder of n files gives when the two
\* services of ResumeManager were constructed
StartedServices(env, n) ==
    [pinecone_service |-> PineconeService_init(env),
     drive_service |-> GoogleDriveService_init(env),
     openai_parser |-> OpenAIJobParser_init(env),
     crustdata_api |-> CrustDataAPI_init(env),
     ingest |->
        IF PineconeService_init(env).raised
        THEN PineconeService_init(env)
        ELSE IngestOfListing(
                 list_resume_files(
                     GoogleDriveService_init(env).value.is_available,
                     ListedFiles(n), TRUE))]

(***************************************************************************)
(* OpenAIJobParser (services/openai_job_parser.py)                         *)
(***************************************************************************)
\* str.find(c) and str.rfind(c) of one character: the index from 0, or -1
str_find(s, c) ==
    IF \E i \in 1..Len(s) : CharAt(s, i) = c
    THEN SetMin({i \in 1..Len(s) : CharAt(s, i) = c}) - 1
    ELSE -1

str_rfind(s, c) ==
    IF \E i \in 1..Len(s) : CharAt(s, i) = c
    THEN SetMax({i \in 1..Len(s) : CharAt(s, i) = c}) - 1
    ELSE -1

\* the bound of a slice: a negative bound counts from the end
SliceBound(s, a) == IF a < 0 THEN Max2(Len(s) + a, 0) ELSE Min2(a, Len(s))

\* s[a:b]
Slice(s, a, b) ==
    IF SliceBound(s, a) < SliceBound(s, b)
    THEN SubSeq(s, SliceBound(s, a) + 1, SliceBound(s, b))
    ELSE ""

\* json.loads of the texts in use: the object, or JSONDecodeError
json_loads(s) ==
    CASE s = "{}" -> Ok([k \in {} |-> <<>>])
      [] s = "{\"job_titles\": [\"Chef\"]}" ->
            Ok([job_titles |-> <<"Chef">>])
      [] s = "{\"job_titles\": [\"Data Engineer\"], \"functions\": [\"Engineering\"], \"keywords\": [\"sql\"], \"locations\": [\"Texas\"], \"experience_levels\": [\"1 to 2 years\"], \"search_strategy\": \"s\"}" ->
            Ok([job_titles |-> <<"Data Engineer">>,
                functions |-> <<"Engineering">>,
                keywords |-> <<"sql">>,
                locations |-> <<"Texas">>,
                experience_levels |-> <<"1 to 2 years">>,
                search_strategy |-> "s"])
      [] OTHER -> Raised("JSONDecodeError")

tech_skills ==
    <<"python", "django", "fastapi", "aws", "docker", "kubernetes",
      "postgresql", "redis", "git", "rest", "api">>

\* some member of the list of words occurs in the text
AnyIn(words, text) == \E i \in 1..Len(words) : In(words[i], text)

\* the experience level _fallback_parsing reads from the lowered text
FallbackExperienceLevel(text) ==
    IF AnyIn(<<"junior", "entry", "graduate", "0-2", "1-2">>, text)
    THEN "1 to 2 years"
    ELSE IF AnyIn(<<"senior", "lead", "5+", "6+", "7+">>, text)
    THEN "6 to 10 years"
    ELSE IF AnyIn(<<"principal", "staff", "10+">>, text)
    THEN "More than 10 years"
    ELSE "3 to 5 years"

\* keywords[:5] of the skills that occur in the lowered text
FallbackKeywords(text) ==
    LET keywords == SelectSeq(tech_skills, LAMBDA skill : In(skill, text))
    IN  SubSeq(keywords, 1, Min2(5, Len(keywords)))

_fallback_parsing(job_description) ==
    [job_titles |-> <<"Software Engineer", "Python Developer">>,
     functions |-> <<"Engineering", "Information Technology">>,
     keywords |-> FallbackKeywords(lower(job_description)),
     locations |-> <<"United States">>,
     experience_levels |->
        <<FallbackExperienceLevel(lower(job_description))>>,
     search_strategy |->
        "Fallback parsing - basic keyword and pattern matching"]

\* result_text[start_idx:end_idx] of the stripped reply
JsonStr(result_text) ==
    Slice(result_text, str_find(result_text, "{"),
          str_rfind(result_text, "}") + 1)

\* parse_job_description; reply is what chat.completions.create gives: an
\* exception, or the content of the first choice (a text or None)
parse_job_description(job_description, reply) ==
    IF reply.raised \/ IsNone(reply.value)
    THEN _fallback_parsing(job_description)
    ELSE IF json_loads(JsonStr(strip(reply.value.val))).raised
    THEN _fallback_parsing(job_description)
    ELSE json_loads(JsonStr(strip(reply.value.val))).value

\* the job descriptions and the replies of the model in use
JobTexts ==
    {"", "Senior Python developer with AWS, Docker, Redis, Git, REST API",
     "Junior graduate", "Principal engineer, 10+ years", "Staff lead",
     "Cook"}

OpenAIReplies ==
    {Raised("APIConnectionError"), Ok(None),
     Ok(Str("I cannot help with that.")),
     Ok(Str("} {")),
     Ok(Str("{}")),
     Ok(Str("Here it is: {\"job_titles\": [\"Chef\"]} ")),
     Ok(Str("{\"job_titles\": [\"Data Engineer\"], \"functions\": [\"Engineering\"], \"keywords\": [\"sql\"], \"locations\": [\"Texas\"], \"experience_levels\": [\"1 to 2 years\"], \"search_strategy\": \"s\"}"))}

(***************************************************************************)
(* JobDescriptionParser (services/job_description_parser.py)               *)
(***************************************************************************)
RECURSIVE collapse_whitespace(_)
\* re.sub(r'\s+', ' ', text)
collapse_whitespace(s) ==
    IF Len(s) <= 1 THEN (IF s \in Whitespace THEN " " ELSE s)
    ELSE (IF CharAt(s, 1) \notin Whitespace THEN CharAt(s, 1)
          ELSE IF CharAt(s, 2) \in Whitespace THEN "" ELSE " ")
             \o collapse_whitespace(SubSeq(s, 2, Len(s)))

RECURSIVE blank_special(_)
\* re.sub(r'[^\w\s\-\+\#\.]', ' ', text)
blank_special(s) ==
    IF s = "" THEN ""
    ELSE (IF CharAt(s, 1) \in WordChars \cup Whitespace \cup {"-", "+", "#", "."}
          THEN CharAt(s, 1) ELSE " ")
             \o blank_special(SubSeq(s, 2, Len(s)))

_clean_text(text) == strip(blank_special(collapse_whitespace(lower(text))))

experience_indicators ==
    [entry |-> {"entry level", "junior", "graduate", "fresh", "0-2 years",
                "1-2 years"},
     mid |-> {"mid level", "intermediate", "2-5 years", "3-5 years",
              "2-6 years"},
     senior |-> {"senior", "lead", "5+ years", "5-10 years", "6+ years",
                 "experienced"},
     executive |-> {"principal", "staff", "architect", "10+ years",
                    "director", "vp"}]

crustdata_experience_mapping ==
    [entry |-> {"Less than 1 year", "1 to 2 years"},
     mid |-> {"3 to 5 years"},
     senior |-> {"6 to 10 years"},
     executive |-> {"More than 10 years"}]

\* the levels whose indicators occur in the text
IndicatedLevels(text) ==
    {level \in DOMAIN experience_indicators :
        \E indicator \in experience_indicators[level] : In(indicator, text)}

\* the labels the first loop of _extract_experience_level collects
IndicatorLabels(text) ==
    UNION {crustdata_experience_mapping[level] :
              level \in IndicatedLevels(text)}

DigitValue ==
    [c \in {"0", "1", "2", "3", "4", "5", "6", "7", "8", "9"} |->
        CASE c = "0" -> 0 [] c = "1" -> 1 [] c = "2" -> 2 [] c = "3" -> 3
          [] c = "4" -> 4 [] c = "5" -> 5 [] c = "6" -> 6 [] c = "7" -> 7
          [] c = "8" -> 8 [] c = "9" -> 9]

IsDigit(s, i) == i >= 1 /\ i <= Len(s) /\ CharAt(s, i) \in DOMAIN DigitValue

\* the position after the run of digits (\d+) that starts at i
AfterDigits(s, i) == SetMin({j \in (i + 1)..(Len(s) + 1) : ~IsDigit(s, j)})

\* the position after the whitespace (\s*) at i
AfterSpaces(s, i) ==
    IF i > Len(s) THEN i
    ELSE SetMin({j \in i..(Len(s) + 1) :
                    j > Len(s) \/ CharAt(s, j) \notin Whitespace})

RECURSIVE int(_)
\* int(s) of a run of digits
int(s) ==
    IF Len(s) = 1 THEN DigitValue[s]
    ELSE 10 * int(SubSeq(s, 1, Len(s) - 1)) + DigitValue[CharAt(s, Len(s))]

\* "experience" after the optional "of" and its whitespace
OfExperienceAt(s, i) ==
    \/ WordAt(s, i, "experience")
    \/ /\ WordAt(s, i, "of")
       /\ AfterSpaces(s, i + 2) > i + 2
       /\ WordAt(s, AfterSpaces(s, i + 2), "experience")

\* the position after year and its optional s
AfterYears(s, i) == IF WordAt(s, i + 4, "s") THEN i + 5 ELSE i + 4

\* years?\s+(?:of\s+)?experience matches at i
YearsExperienceAt(s, i) ==
    /\ WordAt(s, i, "year")
    /\ AfterSpaces(s, AfterYears(s, i)) > AfterYears(s, i)
    /\ OfExperienceAt(s, AfterSpaces(s, AfterYears(s, i)))

\* the positions where a run of digits starts
DigitRunStarts(s) == {i \in 1..Len(s) : IsDigit(s, i) /\ ~IsDigit(s, i - 1)}

\* (\d+)\s*[-+]\s*years?\s+(?:of\s+)?experience matches from the run at i
PlusYearsAt(s, i) ==
    /\ \/ WordAt(s, AfterSpaces(s, AfterDigits(s, i)), "-")
       \/ WordAt(s, AfterSpaces(s, AfterDigits(s, i)), "+")
    /\ YearsExperienceAt(s, AfterSpaces(s, AfterSpaces(s, AfterDigits(s, i)) + 1))

\* the position after "to" and the second run of digits, or 0
AfterToDigits(s, i) ==
    IF /\ WordAt(s, AfterSpaces(s, AfterDigits(s, i)), "to")
       /\ IsDigit(s, AfterSpaces(s, AfterSpaces(s, AfterDigits(s, i)) + 2))
    THEN AfterDigits(s, AfterSpaces(s, AfterSpaces(s, AfterDigits(s, i)) + 2))
    ELSE 0

\* (\d+)\s*to\s*(\d+)\s*years?\s+(?:of\s+)?experience matches from the run at i
RangeYearsAt(s, i) ==
    /\ AfterToDigits(s, i) > 0
    /\ YearsExperienceAt(s, AfterSpaces(s, AfterToDigits(s, i)))

\* minimum\s+(\d+)\s*years?\s+(?:of\s+)?experience matches with the run at i
MinimumYearsAt(s, i) ==
    /\ \E j \in 1..(i - 8) :
          WordAt(s, j, "minimum") /\ j + 7 < i /\ AfterSpaces(s, j + 7) = i
    /\ YearsExperienceAt(s, AfterSpaces(s, AfterDigits(s, i)))

\* min_years of every match of the three year_patterns
MinYears(text) ==
    {int(SubSeq(text, i, AfterDigits(text, i) - 1)) :
        i \in {j \in DigitRunStarts(text) :
                  \/ PlusYearsAt(text, j)
                  \/ RangeYearsAt(text, j)
                  \/ MinimumYearsAt(text, j)}}

\* the labels appended for one match
YearLabels(min_years) ==
    IF min_years <= 1 THEN {"Less than 1 year", "1 to 2 years"}
    ELSE IF min_years <= 2 THEN {"1 to 2 years", "3 to 5 years"}
    ELSE IF min_years <= 5 THEN {"3 to 5 years"}
    ELSE IF min_years <= 10 THEN {"6 to 10 years"}
    ELSE {"More than 10 years"}

\* the labels the second loop of _extract_experience_level collects
NumericLabels(text) == UNION {YearLabels(y) : y \in MinYears(text)}

\* list(set(experience_levels)), as a set
_extract_experience_level(text) ==
    IF IndicatorLabels(text) \cup NumericLabels(text) = {}
    THEN {"3 to 5 years", "6 to 10 years"}
    ELSE IndicatorLabels(text) \cup NumericLabels(text)

\* every title of job_title_patterns
job_title_patterns ==
    {"backend engineer", "backend developer", "server-side engineer",
     "api developer", "frontend engineer", "frontend developer",
     "ui developer", "react developer", "fullstack engineer",
     "full stack developer", "full-stack engineer",
     "senior software engineer", "senior developer", "senior engineer",
     "lead engineer", "software engineer", "software developer",
     "programmer", "developer", "data engineer", "data scientist",
     "data analyst", "ml engineer", "devops engineer",
     "site reliability engineer", "infrastructure engineer",
     "mobile developer", "ios developer", "android developer",
     "mobile engineer"}

\* str.upper() of one character
UpperOf(c) ==
    IF \E u \in DOMAIN LowerMap : LowerMap[u] = c
    THEN CHOOSE u \in DOMAIN LowerMap : LowerMap[u] = c
    ELSE c

RECURSIVE TitleFrom(_, _)
\* str.title() of s from position i on: a letter after a letter is
\* lowered, any other letter is raised
TitleFrom(s, i) ==
    IF i > Len(s) THEN ""
    ELSE (IF i > 1 /\ lower(CharAt(s, i - 1)) \in DOMAIN LowerMap
                          \cup {LowerMap[u] : u \in DOMAIN LowerMap}
          THEN lower(CharAt(s, i)) ELSE UpperOf(CharAt(s, i)))
             \o TitleFrom(s, i + 1)

str_title(s) == TitleFrom(s, 1)

\* re.findall of the five title_patterns in the texts in use
TitlePatternMatches(text) ==
    CASE text = "looking for a chef who cooks" -> {"chef"}
      [] OTHER -> {}

\* list(set(job_titles)), as a set
_extract_job_titles(text) ==
    {str_title(t) : t \in {p \in job_title_patterns : In(p, text)}}
        \cup {str_title(strip(m)) :
                 m \in {t \in TitlePatternMatches(text) :
                           Len(split(str_title(strip(t)))) <= 4}}

jd_tech_skills ==
    {"python", "java", "javascript", "typescript", "go", "golang", "rust",
     "c++", "c#", "react", "angular", "vue", "node.js", "nodejs", "express",
     "django", "flask", "fastapi", "spring", "laravel", "rails", "asp.net",
     "aws", "azure", "gcp", "docker", "kubernetes", "terraform", "jenkins",
     "mysql", "postgresql", "mongodb", "redis", "elasticsearch", "cassandra",
     "git", "github", "gitlab", "jira", "confluence", "slack",
     "machine learning", "deep learning", "ai", "data science", "analytics",
     "microservices", "api", "rest", "graphql", "grpc", "websockets",
     "linux", "unix", "bash", "shell", "ci/cd", "agile", "scrum"}

\* the alternatives of prog_lang_patterns that begin and end with a word
\* character (c++ and c# need a word character after them to match, which
\* the texts in use never have)
prog_lang_patterns ==
    {"python", "java", "javascript", "typescript", "go", "golang", "rust",
     "php", "ruby", "swift", "kotlin", "react", "angular", "vue", "node.js",
     "nodejs", "express", "django", "flask", "spring", "laravel", "aws",
     "azure", "gcp", "docker", "kubernetes", "terraform", "jenkins", "git",
     "mysql", "postgresql", "mongodb", "redis", "elasticsearch"}

\* list(set(found_skills)), as a set
jd_extract_skills(text) ==
    {skill \in jd_tech_skills : In(skill, text)}
        \cup {a \in prog_lang_patterns : WordIn(a, text)}

\* self.functions and the found functions
_extract_functions(text) ==
    IF SelectSeq(<<"Engineering", "Information Technology">>,
                 LAMBDA function : In(lower(function), text)) = <<>>
    THEN <<"Engineering", "Information Technology">>
    ELSE SelectSeq(<<"Engineering", "Information Technology">>,
                   LAMBDA function : In(lower(function), text))

\* the nltk stop words of more than two characters of the texts in use
nltk_stop_words == {"with", "for", "who", "the", "and"}

\* the words kept by _extract_keywords; nltk.word_tokenize separates the
\* texts in use at their whitespace, apart from tokens of two characters
\* or fewer, which are dropped here
KeptWords(text) ==
    SelectSeq(split(text),
              LAMBDA word : lower(word) \notin nltk_stop_words /\ Len(word) > 2)

\* _extract_keywords of a text of ten kept words or fewer: words[:10]
_extract_keywords(text) ==
    SubSeq(KeptWords(text), 1, Min2(10, Len(KeptWords(text))))

\* re.findall of the four location_patterns in the texts in use
LocationPatternMatches(text) ==
    CASE text = "junior python developer based in berlin" -> {"berlin"}
      [] OTHER -> {}

\* the locations before the default
FoundLocations(text) ==
    {str_title(strip(m)) :
        m \in {l \in LocationPatternMatches(text) :
                  Len(split(str_title(strip(l)))) <= 5}}
        \cup (IF In("remote", text) THEN {"Remote"} ELSE {})

\* list(set(locations)), as a set
_extract_location(text) ==
    IF FoundLocations(text) = {} THEN {"United States"}
    ELSE FoundLocations(text)

\* the result of parse_job_description for the cleaned text
ParsedJobDescription(cleaned_text) ==
    [job_titles |-> _extract_job_titles(cleaned_text),
     skills |-> jd_extract_skills(cleaned_text),
     experience_level |-> _extract_experience_level(cleaned_text),
     functions |-> _extract_functions(cleaned_text),
     keywords |-> _extract_keywords(cleaned_text),
     location |-> _extract_location(cleaned_text),
     all_extracted_keywords |->
        jd_extract_skills(cleaned_text)
            \cup ToSet(_extract_keywords(cleaned_text))]

\* JobDescriptionParser.parse_job_description
jd_parse_job_description(job_description) ==
    Ok(ParsedJobDescription(_clean_text(job_description)))

\* the job descriptions in use
JobDescriptions ==
    {"", " ?! ", "Cook", "Junior Python developer based in Berlin",
     "Remote backend engineer, 2+ years of experience",
     "Senior engineer, 2+ years of experience",
     "Minimum 7 years experience",
     "Staff architect with 12 to 15 years of experience",
     "Looking for a chef who cooks", "5+ years of experience",
     "Entry level, minimum 12 years of experience"}

RECURSIVE TotalMonths(_)
\* total_months of _calculate_experience: the months of every job that
\* has a start date, none counted below zero
TotalMonths(employer_months) ==
    IF employer_months = <<>> THEN 0
    ELSE Max2(0, Head(employer_months)) + TotalMonths(Tail(employer_months))

\* the label for a number of years
ExperienceLabel(years) ==
    IF years < 2 THEN "0 to 2 years"
    ELSE IF years < 6 THEN "2 to 6 years"
    ELSE IF years < 10 THEN "6 to 10 years"
    ELSE "More than 10 years"

\* CrustDataAPI._calculate_experience; employer_months holds
\* (end.year - start.year) * 12 + (end.month - start.month) of every job
_calculate_experience(employer_months) ==
    IF employer_months = <<>> THEN None
    ELSE Str(ExperienceLabel(TotalMonths(employer_months) \div 12))

\* the level _determine_experience_level gives for the years alone
LevelOfYears(years) ==
    IF IsNone(years) THEN "entry"
    ELSE IF years.val < 2 THEN "entry"
    ELSE IF years.val < 5 THEN "mid"
    ELSE IF years.val < 10 THEN "senior"
    ELSE "executive"

\* ResumeParser._determine_experience_level
_determine_experience_level(years, text) ==
    IF AnyIn(<<"senior", "lead", "principal", "staff">>, lower(text))
    THEN "senior"
    ELSE IF AnyIn(<<"director", "vp", "cto", "ceo", "executive">>, lower(text))
    THEN "executive"
    ELSE IF AnyIn(<<"junior", "intern", "entry", "graduate">>, lower(text))
    THEN "entry"
    ELSE LevelOfYears(years)

\* the month counts of the jobs, the years and the resume texts in use
JobMonths == {-3, 11, 24, 60, 130}

ResumeYears == {None} \cup {[type |-> "int", val |-> y] : y \in {0, 1, 3, 7, 12}}

ResumeTexts ==
    {"", "Senior developer", "Junior analyst, 7 years", "CTO",
     "Cook, 3 years", "Internal auditor"}

(***************************************************************************)
(* CrustDataAPI (services/crustdata_api.py): a candidate search, request   *)
(* by request                                                              *)
(***************************************************************************)
\* parsed_filters.get(key) is present and not empty
HasFilter(parsed_filters, key) ==
    key \in DOMAIN parsed_filters /\ Len(parsed_filters[key]) > 0

Filter(filter_type, value) ==
    [filter_type |-> filter_type, type |-> "in", value |-> value]

\* the filters search_candidates_from_job_description builds
ParsedSearchFilters(parsed_filters) ==
    (IF HasFilter(parsed_filters, "job_titles")
     THEN <<Filter("CURRENT_TITLE", parsed_filters.job_titles)>> ELSE <<>>)
    \o (IF HasFilter(parsed_filters, "functions")
        THEN <<Filter("FUNCTION", parsed_filters.functions)>> ELSE <<>>)
    \o (IF HasFilter(parsed_filters, "keywords")
        THEN <<Filter("KEYWORD", <<join(" ", parsed_filters.keywords)>>)>>
        ELSE <<>>)
    \o (IF HasFilter(parsed_filters, "locations")
        THEN <<Filter("REGION", parsed_filters.locations)>> ELSE <<>>)
    \o (IF HasFilter(parsed_filters, "experience_levels")
        THEN <<Filter("YEARS_OF_EXPERIENCE",
                      parsed_filters.experience_levels)>>
        ELSE <<>>)

\* the filters of _simplified_search
SimplifiedFilters(parsed_filters) ==
    (IF HasFilter(parsed_filters, "job_titles")
     THEN <<Filter("CURRENT_TITLE",
                   SubSeq(parsed_filters.job_titles, 1,
                          Min2(2, Len(parsed_filters.job_titles))))>>
     ELSE <<>>)
    \o (IF HasFilter(parsed_filters, "keywords")
        THEN <<Filter("KEYWORD", <<parsed_filters.keywords[1]>>)>>
        ELSE <<>>)

\* the locations of search_candidates, as a set
BroadLocations(locations) ==
    UNION {IF In("united states", lower(locations[i]))
              \/ In("usa", lower(locations[i]))
           THEN {"United States", "USA", "California, United States",
                 "New York, United States", "Texas, United States"}
           ELSE {locations[i]} : i \in 1..Len(locations)}

\* the filters search_candidates builds; list(set(...)) values are sets
CandidateSearchFilters(args) ==
    (IF Len(args.job_titles) > 0
     THEN <<Filter("CURRENT_TITLE",
                   ToSet(args.job_titles)
                      \cup {"Software Engineer", "Backend Engineer",
                            "Python Developer", "Software Developer"})>>
     ELSE <<>>)
    \o (IF Len(args.functions) > 0
        THEN <<Filter("FUNCTION", args.functions)>> ELSE <<>>)
    \o (IF Len(args.keywords) > 0
        THEN <<Filter("KEYWORD",
                      <<join(" ", SubSeq(args.keywords, 1,
                                         Min2(5, Len(args.keywords))))>>)>>
        ELSE <<>>)
    \o (IF Len(args.locations) > 0
        THEN <<Filter("REGION", BroadLocations(args.locations))>> ELSE <<>>)
    \o (IF Len(args.experience_levels) > 0
        THEN <<Filter("YEARS_OF_EXPERIENCE", args.experience_levels)>>
        ELSE <<>>)

\* the filters of _fallback_search
FallbackFilters(args) ==
    (IF Len(args.job_titles) > 0
     THEN <<Filter("CURRENT_TITLE",
                   <<"Software Engineer", "Backend Engineer",
                     "Python Developer", "Software Developer", "Engineer">>)>>
     ELSE <<>>)
    \o (IF \E i \in 1..Len(args.keywords) :
              In("python", lower(args.keywords[i]))
        THEN <<Filter("KEYWORD", <<"Python">>)>> ELSE <<>>)

\* what requests.post with raise_for_status and response.json() gives: a
\* timeout, another request exception, a body that is no JSON object, or
\* the object (with its profiles, or without the key)
HttpReplies ==
    {[kind |-> "timeout", error |-> "Read timed out"],
     [kind |-> "request_exception", error |-> "503 Server Error"],
     [kind |-> "exception", error |-> "'list' object has no attribute 'get'"],
     [kind |-> "json", has_profiles |-> FALSE, profiles |-> <<>>],
     [kind |-> "json", has_profiles |-> TRUE, profiles |-> <<>>],
     [kind |-> "json", has_profiles |-> TRUE, profiles |-> <<"p1", "p2">>]}

\* the dictionary an except clause of a first request returns
SearchError(reply) ==
    [profiles |-> <<>>,
     message |-> CASE reply.kind = "timeout" ->
                          "API timeout - please try again"
                   [] reply.kind = "request_exception" ->
                          "API error: " \o reply.error
                   [] OTHER -> "Search failed: " \o reply.error]

\* the dictionary the except clause of the second request returns
SecondSearchError(op, reply) ==
    [profiles |-> <<>>,
     message |-> IF op = "search_candidates"
                 THEN "Both primary and fallback searches failed"
                 ELSE "Both full and simplified searches failed: "
                         \o reply.error]

\* data of response.json(), with the strategy of its parsing_info when the
\* search adds one
SearchData(reply, strategy) ==
    [has_profiles |-> reply.has_profiles, profiles |-> reply.profiles,
     search_strategy |-> strategy]

\* a second request whenever the first found nothing
NeedsSecondSearch_any(reply, filters) ==
    reply.kind = "json" /\ Len(reply.profiles) = 0

\* the first request got zero profiles with more than two filters
NeedsSecondSearch(reply, filters) ==
    reply.kind = "json" /\ Len(reply.profiles) = 0 /\ Len(filters) > 2

\* parsed_filters.get('search_strategy', 'OpenAI optimized search')
SearchStrategy(parsed_filters) ==
    IF "search_strategy" \in DOMAIN parsed_filters
    THEN parsed_filters.search_strategy
    ELSE "OpenAI optimized search"

\* the results of the parser and the arguments of search_candidates in use
ParsedFilters ==
    {parse_job_description(job_description, reply) :
        job_description \in {"", "Junior graduate"},
        reply \in OpenAIReplies}

SearchArguments ==
    [job_titles : {<<>>, <<"Chef">>},
     functions : {<<>>, <<"Engineering">>},
     keywords : {<<>>, <<"Python 3", "sql">>},
     locations : {<<>>, <<"USA", "Berlin">>},
     experience_levels : {<<>>, <<"3 to 5 years">>}]

(***************************************************************************)
(* The services' constructors, parsers and searches, one call at a time    *)
(***************************************************************************)
\* the services are constructed from the environment, as main.py does at
\* import, and an ingestion is asked for
ConstructServices ==
    /\ call = Idle
    /\ \E env \in SUBSET Credentials, n \in 0..MaxFiles :
          call' = [op |-> "construct_services",
                   env |-> env,
                   folder_files |-> n,
                   ret |-> StartedServices(env, n)]
    /\ UNCHANGED <<index, run>>

\* one call of OpenAIJobParser.parse_job_description
ParseJobDescription ==
    /\ call = Idle
    /\ \E job_description \in JobTexts, reply \in OpenAIReplies :
          call' = [op |-> "parse_job_description",
                   job_description |-> job_description,
                   reply |-> reply,
                   ret |-> parse_job_description(job_description, reply)]
    /\ UNCHANGED <<index, run>>

\* one call of JobDescriptionParser.parse_job_description
JdParseJobDescription ==
    /\ call = Idle
    /\ \E job_description \in JobDescriptions :
          call' = [op |-> "jd_parse_job_description",
                   job_description |-> job_description,
                   ret |-> jd_parse_job_description(job_description)]
    /\ UNCHANGED <<index, run>>

\* one call of CrustDataAPI._calculate_experience
CalculateExperience ==
    /\ call = Idle
    /\ \E employer_months \in SeqsUpTo(JobMonths, MaxEmployers) :
          call' = [op |-> "_calculate_experience",
                   employer_months |-> employer_months,
                   ret |-> _calculate_experience(employer_months)]
    /\ UNCHANGED <<index, run>>

\* one call of ResumeParser._determine_experience_level
DetermineExperienceLevel ==
    /\ call = Idle
    /\ \E years \in ResumeYears, text \in ResumeTexts :
          call' = [op |-> "_determine_experience_level",
                   years |-> years,
                   text |-> text,
                   ret |-> _determine_experience_level(years, text)]
    /\ UNCHANGED <<index, run>>

\* one call of GoogleDriveService.download_file_content with a cap given
\* by the caller
DownloadWithRetries ==
    /\ call = Idle
    /\ \E retries \in (-1)..MaxRetries, failures \in 0..MaxFailures,
          is_available \in BOOLEAN, j \in 1..2 :
          call' = [op |-> "download_file_content_retries",
                   is_available |-> is_available,
                   max_retries |-> retries,
                   failures |-> failures,
                   file_content |-> DriveFolder[j].file_content,
                   ret |-> download_file_content_retries(is_available,
                               retries, failures,
                               DriveFolder[j].file_content)]
    /\ UNCHANGED <<index, run>>

NextServices ==
    \/ ConstructServices
    \/ ParseJobDescription
    \/ JdParseJobDescription
    \/ CalculateExperience
    \/ DetermineExperienceLevel
    \/ DownloadWithRetries
    \/ Return

SpecServices == Init /\ [][NextServices]_vars

(***************************************************************************)
(* One CrustData candidate search, request by request                      *)
(***************************************************************************)
\* search_candidates_from_job_description parses the job description,
\* builds its filters and sends the full request
SearchFromJobDescription ==
    /\ call = Idle
    /\ \E parsed_filters \in ParsedFilters :
          call' = [op |-> "search_candidates_from_job_description",
                   pc |-> "full_request",
                   parsed_filters |-> parsed_filters,
                   filters |-> ParsedSearchFilters(parsed_filters),
                   requests |-> <<ParsedSearchFilters(parsed_filters)>>,
                   replies |-> <<>>]
    /\ UNCHANGED <<index, run>>

\* search_candidates builds its filters and sends the full request
SearchCandidates ==
    /\ call = Idle
    /\ \E args \in SearchArguments :
          call' = [op |-> "search_candidates",
                   pc |-> "full_request",
                   args |-> args,
                   filters |-> CandidateSearchFilters(args),
                   requests |-> <<CandidateSearchFilters(args)>>,
                   replies |-> <<>>]
    /\ UNCHANGED <<index, run>>

\* the result of a search whose first request was answered with reply and
\* that sends no second request
FirstResult(c, reply) ==
    IF reply.kind # "json" THEN SearchError(reply)
    ELSE IF c.op = "search_candidates" THEN SearchData(reply, "")
    ELSE SearchData(reply, SearchStrategy(c.parsed_filters))

\* the filters of the second request of the search c
SecondFilters(c) ==
    IF c.op = "search_candidates" THEN FallbackFilters(c.args)
    ELSE SimplifiedFilters(c.parsed_filters)

\* the answer to the full request arrives: the search returns, or it sends
\* the simplified or fallback request
FullRequestAnswered ==
    /\ call # Idle
    /\ call.pc = "full_request"
    /\ \E reply \in HttpReplies :
          IF NeedsSecondSearch(reply, call.filters)
          THEN call' = [call EXCEPT
                           !.pc = "second_request",
                           !.requests = Append(@, SecondFilters(call)),
                           !.replies = Append(@, reply)]
          ELSE call' = [pc |-> "done", ret |-> FirstResult(call, reply)]
                          @@ [call EXCEPT !.replies = Append(@, reply)]
    /\ UNCHANGED <<index, run>>

\* the result of a search whose second request was answered with reply
SecondResult(c, reply) ==
    IF reply.kind # "json" THEN SecondSearchError(c.op, reply)
    ELSE IF c.op = "search_candidates" THEN SearchData(reply, "")
    ELSE SearchData(reply,
             "Simplified search - reduced filters for broader results")

\* the answer to the second request arrives and the search returns
SecondRequestAnswered ==
    /\ call # Idle
    /\ call.pc = "second_request"
    /\ \E reply \in HttpReplies :
          call' = [pc |-> "done", ret |-> SecondResult(call, reply)]
                     @@ [call EXCEPT !.replies = Append(@, reply)]
    /\ UNCHANGED <<index, run>>

\* the caller takes the result of the search
SearchReturns ==
    /\ call # Idle
    /\ call.pc = "done"
    /\ call' = Idle
    /\ UNCHANGED <<index, run>>

NextSearch ==
    \/ SearchFromJobDescription
    \/ SearchCandidates
    \/ FullRequestAnswered
    \/ SecondRequestAnswered
    \/ SearchReturns

SpecSearch == Init /\ [][NextSearch]_vars

\* every request is answered or times out (timeout=60), and the caller
\* takes the result
FairSearch ==
    /\ SpecSearch
    /\ WF_vars(FullRequestAnswered)
    /\ WF_vars(SecondRequestAnswered)
    /\ WF_vars(SearchReturns)

(***************************************************************************)
(* Properties                                                              *)
(***************************************************************************)
IsCall(op) == call.op = op

\* C1: the total score returned by _calculate_match_score lies in [0, 100],
\* for every candidate and job requirements, also when fields are missing or
\* null and when scoring fails internally.
C1_TotalScoreInRange ==
    IsCall("_calculate_match_score") =>
        FLe(Zero, call.ret.score) /\ FLe(call.ret.score, Hundred)

\* a calculation that did not fail has returned a score above 80
C1_Witness ==
    /\ IsCall("_calculate_match_score")
    /\ FLt(Frac(80, 1), call.ret.score)
    /\ call.ret.explanation # "Error calculating match score"

\* the permutations of 1..n
Perms(n) == {p \in [1..n -> 1..n] : \A i, j \in 1..n : p[i] = p[j] => i = j}

\* out is the scored copy of the candidate in
SameCandidate(out, in) ==
    /\ DOMAIN out = DOMAIN in \cup {"match_score", "match_explanation"}
    /\ \A k \in DOMAIN in \ {"match_score", "match_explanation"} :
          out[k] = in[k]

\* out is the job in, whatever its three computed fields are
SameJob(out, in) ==
    /\ out.title = in.title
    /\ out.company = in.company
    /\ out.description = in.description

\* out is in rearranged by p, in descending key order, items of equal key in
\* their input order
StableDescending(out, in, p, Same(_, _), Key(_)) ==
    /\ \A i \in 1..Len(out) : Same(out[i], in[p[i]])
    /\ \A i, j \in 1..Len(out) :
          i < j => \/ FLt(Key(out[j]), Key(out[i]))
                   \/ Key(out[j]) = Key(out[i]) /\ p[i] < p[j]

CandidateKey(c) == c["match_score"].val
JobKey(j) == j.match_score

\* C2: the output of rank_candidates and of rank_jobs is a permutation of the
\* input list, in descending order of match score, and items of equal score
\* keep their relative input order.
C2_RankStablePermutation ==
    /\ IsCall("rank_candidates") =>
          /\ Len(call.ret) = Len(call.candidates)
          /\ \E p \in Perms(Len(call.candidates)) :
                StableDescending(call.ret, call.candidates, p,
                                 SameCandidate, CandidateKey)
    /\ IsCall("rank_jobs") =>
          /\ Len(call.ret) = Len(call.jobs_in)
          /\ \E p \in Perms(Len(call.jobs_in)) :
                StableDescending(call.ret, call.jobs_in, p, SameJob, JobKey)

\* three candidates were ranked, the last one given came out first and two
\* different candidates of equal score came out in their input order
C2_Witness ==
    /\ IsCall("rank_candidates")
    /\ Len(call.candidates) = 3
    /\ SameCandidate(call.ret[1], call.candidates[3])
    /\ SameCandidate(call.ret[2], call.candidates[1])
    /\ call.candidates[1] # call.candidates[2]
    /\ CandidateKey(call.ret[2]) = CandidateKey(call.ret[3])

\* the two skills match: either contains the other, lower-cased and trimmed
SkillsAlike(a, b) ==
    LET x == strip(lower(a))
        y == strip(lower(b))
    IN  In(x, y) \/ In(y, x)

\* the positions of the required skills that match some candidate skill
MatchedRequired(candidate_skills, required_skills) ==
    {i \in 1..Len(required_skills.val) :
        \E j \in 1..Len(candidate_skills.val) :
            SkillsAlike(required_skills.val[i].val,
                        candidate_skills.val[j].val)}

StrSkills(v) == IsList(v) /\ AllStr(v)

\* C3: skills_match is the number of required skills that match some
\* candidate skill divided by the number of required skills, and 0 when
\* either collection is empty; {Python, AWS} against {Python, AWS, Docker}
\* gives 2/3.
C3_SkillsMatchRatio ==
    LET cs == call.candidate_skills
        rs == call.required_skills
        empty == ~Truthy(cs) \/ ~Truthy(rs)
        strings == StrSkills(cs) /\ StrSkills(rs)
        scenario == /\ cs = StrList(<<"Python", "AWS">>)
                    /\ rs = StrList(<<"Python", "AWS", "Docker">>)
    IN  IsCall("_calculate_skills_match") =>
            /\ empty => (call.ret.score = Zero)
            /\ (~empty /\ strings) =>
                  (call.ret.score =
                      Frac(Cardinality(MatchedRequired(cs, rs)), Len(rs.val)))
            /\ scenario => (call.ret.score = Frac(2, 3))

\* the scenario of the specification has been scored
C3_Witness ==
    /\ IsCall("_calculate_skills_match")
    /\ call.candidate_skills = StrList(<<"Python", "AWS">>)
    /\ call.required_skills = StrList(<<"Python", "AWS", "Docker">>)
    /\ call.ret.score = Frac(2, 3)

\* the candidate with its skill list replaced
WithSkills(candidate, skills) ==
    [k \in DOMAIN candidate \cup {"skills"} |->
        IF k = "skills" THEN skills ELSE candidate[k]]

\* the candidate's skill list, empty when the field is missing or null
SkillsOf(candidate) ==
    LET v == Get(candidate, "skills", List(<<>>))
    IN  IF IsList(v) THEN v ELSE List(<<>>)

\* the required skills that _calculate_match_score passes on
RequiredOf(job_requirements) ==
    List(Get(job_requirements, "skills", List(<<>>)).val
             \o Get(job_requirements, "keywords", List(<<>>)).val)

SkillStrings == {v \in SkillItems : IsStr(v)}

\* the skill lists of the other candidate that C4 compares with
OtherSkillLists ==
    {List(<<>>), StrList(<<"Python">>), StrList(<<"Docker", "AWS">>),
     StrList(<<"AWS", " Python Django ">>),
     StrList(<<"Python", "AWS", "Docker">>)}

\* C4: with the job requirements and the candidate's other fields fixed,
\* adding a skill to the candidate's skill list never lowers the total
\* score, and a candidate who matches a superset of the required skills that
\* another matches never scores lower.
C4_MonotoneInSkills ==
    IsCall("_calculate_match_score") =>
        /\ \A s \in SkillStrings :
              FLe(call.ret.score,
                  _calculate_match_score(
                      WithSkills(call.candidate,
                                 List(Append(SkillsOf(call.candidate).val, s))),
                      call.job_requirements).score)
        /\ \A skills \in OtherSkillLists :
              LET other == WithSkills(call.candidate, skills)
              IN  (/\ StrSkills(SkillsOf(call.candidate))
                   /\ IsList(Get(call.job_requirements, "skills", List(<<>>)))
                   /\ MatchedRequired(SkillsOf(call.candidate),
                                      RequiredOf(call.job_requirements))
                         \subseteq
                             MatchedRequired(skills,
                                 RequiredOf(call.job_requirements)))
                  => FLe(call.ret.score,
                         _calculate_match_score(other,
                             call.job_requirements).score)

\* a candidate has been scored for whom one more skill raises the total
C4_Witness ==
    /\ IsCall("_calculate_match_score")
    /\ call.ret.explanation # "Error calculating match score"
    /\ Truthy(SkillsOf(call.candidate))
    /\ \E s \in SkillStrings :
          FLt(call.ret.score,
              _calculate_match_score(
                  WithSkills(call.candidate,
                             List(Append(SkillsOf(call.candidate).val, s))),
                  call.job_requirements).score)

\* C5 as claimed: matching a document against itself (its skill list as the
\* required skills, its title as the required title) yields skills_match 1.0
\* and title_match 1.0, for every document.
C5_SelfMatchIsOne_AsClaimed ==
    /\ (/\ IsCall("_calculate_skills_match")
        /\ StrSkills(call.candidate_skills)
        /\ call.required_skills = call.candidate_skills)
          => (call.ret.score = One)
    /\ (/\ IsCall("_calculate_title_match")
        /\ IsStr(call.candidate_title)
        /\ call.required_titles = List(<<call.candidate_title>>))
          => (call.ret.score = One)

\* C5 amended: matching a document against itself yields skills_match 1.0
\* when its skill list is not empty and 0.0 when it is empty, and
\* title_match 1.0 when its title is not empty and 0.5 when it is empty.
C5_SelfMatchIsOneIfPresent ==
    /\ (/\ IsCall("_calculate_skills_match")
        /\ StrSkills(call.candidate_skills)
        /\ call.required_skills = call.candidate_skills)
          => (call.ret.score =
                 IF Len(call.candidate_skills.val) = 0 THEN Zero ELSE One)
    /\ (/\ IsCall("_calculate_title_match")
        /\ IsStr(call.candidate_title)
        /\ call.required_titles = List(<<call.candidate_title>>))
          => (call.ret.score =
                 IF call.candidate_title.val = "" THEN Half ELSE One)

\* a list of two different skills has been matched against itself
C5_Witness ==
    /\ IsCall("_calculate_skills_match")
    /\ StrSkills(call.candidate_skills)
    /\ call.required_skills = call.candidate_skills
    /\ Len(call.candidate_skills.val) = 2
    /\ call.candidate_skills.val[1] # call.candidate_skills.val[2]
    /\ call.ret.score = One

\* the largest of a non-empty set of rationals
FracMax(S) == CHOOSE x \in S : \A y \in S : FLe(y, x)

TitleWords(title) == ToSet(split(strip(lower(title))))

QualifierWords == {"senior", "junior", "lead", "i", "ii", "iii", "iv", "v"}

\* the title match that C6 describes for one required title
ClaimedTitleMatch(candidate_title, req_title) ==
    LET c == TitleWords(candidate_title) \ QualifierWords
        r == TitleWords(req_title) \ QualifierWords
    IN  IF strip(lower(candidate_title)) = strip(lower(req_title)) THEN One
        ELSE IF c \cup r = {} THEN Zero
        ELSE Frac(Cardinality(c \cap r), Cardinality(c \cup r))

\* the share of the required title's words found in the candidate's title
WordOverlap(candidate_title, req_title) ==
    LET c == TitleWords(candidate_title)
        r == TitleWords(req_title)
    IN  IF c = {} \/ r = {} THEN Zero
        ELSE Frac(Cardinality(c \cap r), Cardinality(r))

TitleUnset == ~Truthy(call.candidate_title) \/ ~Truthy(call.required_titles)

TitleScenario ==
    /\ call.candidate_title = Str("Senior Software Engineer")
    /\ call.required_titles = StrList(<<"Software Engineer II">>)

\* C6 as claimed: title_match is 1.0 on an exact case-insensitive match,
\* otherwise the token overlap of the titles' word sets after stripping the
\* seniority qualifiers, so that "Senior Software Engineer" against
\* "Software Engineer II" gives 1.0; 0.5 if either side has no title.
C6_TitleMatch_AsClaimed ==
    IsCall("_calculate_title_match") =>
        /\ TitleUnset => (call.ret.score = Half)
        /\ (/\ ~TitleUnset
            /\ AllStr(call.required_titles)
            /\ Len(call.required_titles.val) = 1)
              => (call.ret.score =
                     ClaimedTitleMatch(call.candidate_title.val,
                                       call.required_titles.val[1].val))
        /\ TitleScenario => (call.ret.score = One)

\* C6 amended: title_match is 1.0 when the candidate's title equals a
\* required title, case and surrounding blanks aside; otherwise it is the
\* largest, over the required titles, share of the required title's words
\* that occur in the candidate's title, nothing being stripped, so that
\* "Senior Software Engineer" against "Software Engineer II" gives 2/3;
\* it is 0.5 if either side has no title.
C6_TitleMatchWordOverlap ==
    IsCall("_calculate_title_match") =>
        /\ TitleUnset => (call.ret.score = Half)
        /\ (~TitleUnset /\ AllStr(call.required_titles))
              => LET c == call.candidate_title.val
                     rs == call.required_titles.val
                 IN  call.ret.score =
                        IF \E i \in 1..Len(rs) :
                              strip(lower(c)) = strip(lower(rs[i].val))
                        THEN One
                        ELSE FracMax({WordOverlap(c, rs[i].val) :
                                         i \in 1..Len(rs)})
        /\ TitleScenario => (call.ret.score = Frac(2, 3))

\* the scenario of the specification has been scored
C6_Witness ==
    /\ IsCall("_calculate_title_match")
    /\ TitleScenario
    /\ call.ret.score = Frac(2, 3)

\* the length of the overlap of two ranges over the length of the second,
\* between 0 and 1
RangeOverlapShare(a, b) ==
    LET len == Min2(a[2], b[2]) - Max2(a[1], b[1])
    IN  IF len <= 0 THEN Zero ELSE FMin(Frac(len, b[2] - b[1]), One)

ExperienceUnset == ~Truthy(call.candidate_exp) \/ ~Truthy(call.required_exp)

\* C7: experience_match is the length of the overlap of the candidate's and
\* the required experience range divided by the length of the required
\* range, within [0, 1] (the best one when several levels are required);
\* it is exactly 0.5 whenever either side's experience is unset, as for an
\* unset candidate against the target "3 to 5 years".
C7_ExperienceMatch ==
    IsCall("_calculate_experience_match") =>
        /\ ExperienceUnset => (call.ret.score = Half)
        /\ (~ExperienceUnset /\ AllStr(call.required_exp))
              => LET cand == exp_mapping(strip(lower(call.candidate_exp.val)))
                     req == call.required_exp.val
                 IN  call.ret.score =
                        FracMax({RangeOverlapShare(cand,
                                     exp_mapping(strip(lower(req[i].val)))) :
                                    i \in 1..Len(req)})

\* an unset candidate experience has been scored against "3 to 5 years"
C7_Witness ==
    /\ IsCall("_calculate_experience_match")
    /\ call.candidate_exp = None
    /\ call.required_exp = StrList(<<"3 to 5 years">>)
    /\ call.ret.score = Half

LocationUnset ==
    ~Truthy(call.candidate_location) \/ ~Truthy(call.required_locations)

SameLocation(a, b) == strip(lower(a)) = strip(lower(b))

\* C8: location_match is never 0: it is 0.5 when either side has no
\* location; when both have one it is 1.0 on an exact case-insensitive
\* match and never below the 0.2 floor.
C8_LocationFloor ==
    IsCall("_calculate_location_match") =>
        /\ call.ret.score # Zero
        /\ LocationUnset => (call.ret.score = Half)
        /\ (~LocationUnset /\ AllStr(call.required_locations))
              => /\ FLe(Frac(2, 10), call.ret.score)
                 /\ (\E i \in 1..Len(call.required_locations.val) :
                        SameLocation(call.candidate_location.val,
                                     call.required_locations.val[i].val))
                       => (call.ret.score = One)

\* C9: whenever the candidate's location mentions "remote" and at least one
\* required location mentions "remote", location_match is 1.0, whatever the
\* other segments, the other required locations and their order.
C9_RemoteMatches ==
    (/\ IsCall("_calculate_location_match")
     /\ ~LocationUnset
     /\ AllStr(call.required_locations)
     /\ In("remote", lower(call.candidate_location.val))
     /\ \E i \in 1..Len(call.required_locations.val) :
           In("remote", lower(call.required_locations.val[i].val)))
    => (call.ret.score = One)

SummaryTextEmpty ==
    strip(call.candidate_summary) = "" \/ strip(call.job_keywords) = ""

DescriptionTextEmpty ==
    strip(ResumeText(call.resume)) = "" \/ strip(call.job.description) = ""

\* C10 as claimed: the similarity factor is the neutral value 0.5 (50 on the
\* 0..100 scale of JobMatcher) whenever either text is empty.
C10_EmptyTextNeutral_AsClaimed ==
    /\ (IsCall("_calculate_summary_similarity") /\ SummaryTextEmpty)
          => (call.ret.score = Half)
    /\ (IsCall("_calculate_description_similarity") /\ DescriptionTextEmpty)
          => (call.ret = Frac(50, 1))

\* C10 amended: whenever either text is empty once surrounding whitespace is
\* stripped, the similarity factor is a fixed value and no failure:
\* 0.0 in CandidateMatcher._calculate_summary_similarity and 30 (of 100) in
\* JobMatcher._calculate_description_similarity.
C10_EmptyTextFixedValue ==
    /\ (IsCall("_calculate_summary_similarity") /\ SummaryTextEmpty)
          => (call.ret.score = Zero)
    /\ (IsCall("_calculate_description_similarity") /\ DescriptionTextEmpty)
          => (call.ret = Frac(30, 1))

\* a resume with text has been compared with a blank job description
C10_Witness ==
    /\ IsCall("_calculate_description_similarity")
    /\ strip(ResumeText(call.resume)) # ""
    /\ strip(call.job.description) = ""
    /\ call.ret = Frac(30, 1)

\* The factor results when a factor whose inputs cannot be read degrades
\* alone: the skills factor when the job's skills or keywords are no list,
\* the summary factor when the summary or headline is no str or the extracted
\* keywords are no list of str; the degraded values are those of the factor
\* functions' own except clauses.
IsolatedFactors(candidate, job_requirements) ==
    LET job_skills == Get(job_requirements, "skills", List(<<>>))
        job_keywords == Get(job_requirements, "keywords", List(<<>>))
        summary == Get(candidate, "summary", Str(""))
        headline == Get(candidate, "headline", Str(""))
        all_keywords ==
            Get(job_requirements, "all_extracted_keywords", List(<<>>))
    IN  <<IF IsList(job_skills) /\ IsList(job_keywords)
          THEN _calculate_skills_match(
                   Get(candidate, "skills", List(<<>>)),
                   List(job_skills.val \o job_keywords.val))
          ELSE Ret(Zero, "Error in skills matching"),
          _calculate_title_match(
              Or(Get(candidate, "current_title", Str("")),
                 Get(candidate, "default_position_title", Str(""))),
              Get(job_requirements, "job_titles", List(<<>>))),
          _calculate_experience_match(
              Get(candidate, "years_of_experience", Str("")),
              Get(job_requirements, "experience_level", List(<<>>))),
          IF /\ IsStr(summary) /\ IsStr(headline)
             /\ IsList(all_keywords) /\ AllStr(all_keywords)
          THEN _calculate_summary_similarity(
                   summary.val \o " " \o headline.val,
                   join(" ", [i \in 1..Len(all_keywords.val) |->
                                 all_keywords.val[i].val]))
          ELSE Ret(Zero, "Error in summary matching"),
          _calculate_location_match(
              Get(candidate, "location", Str("")),
              Get(job_requirements, "location", List(<<>>)))>>

\* C11: no single factor aborts a match: when computing one factor fails,
\* also while its inputs are read from the candidate or the job record (a
\* field present but null), that factor alone takes its neutral value and
\* the other factors contribute their normally computed values to the total.
C11_FactorFailureIsolated ==
    IsCall("_calculate_match_score") =>
        /\ call.ret.explanation # "Error calculating match score"
        /\ call.ret.score =
              FMul(WeightedSum(IsolatedFactors(call.candidate,
                                               call.job_requirements), 1),
                   Frac(100, 1))

\* scoring the candidate fails: _calculate_match_score takes its except clause
ScoringFails(candidate, job_requirements) ==
    MatchFactors(candidate, job_requirements).exc

\* the total score of a candidate all of whose factors have the value of
\* their except clause (0.0, 0.5, 0.5, 0.0, 0.5)
NeutralTotal ==
    FMul(WeightedSum(<<Ret(Zero, ""), Ret(Half, ""), Ret(Half, ""),
                       Ret(Zero, ""), Ret(Half, "")>>, 1),
         Frac(100, 1))

\* the sequence s without its item at position i
RemoveAt(s, i) == SubSeq(s, 1, i - 1) \o SubSeq(s, i + 1, Len(s))

\* the one candidate of the list whose scoring fails is at position b
OnlyBadCandidate(b) ==
    /\ ScoringFails(call.candidates[b], call.job_requirements)
    /\ \A j \in 1..Len(call.candidates) :
          j # b => ~ScoringFails(call.candidates[j], call.job_requirements)

\* C12: when scoring one candidate of the list fails, rank_candidates still
\* returns every candidate, the bad candidate has the score of the neutral
\* factor values, and the other candidates have the scores and the order
\* they have when the bad candidate is absent.
C12_BadCandidateNeutral ==
    IsCall("rank_candidates") =>
        \A b \in 1..Len(call.candidates) :
            OnlyBadCandidate(b) =>
                /\ Len(call.ret) = Len(call.candidates)
                /\ \E k \in 1..Len(call.ret) :
                      /\ SameCandidate(call.ret[k], call.candidates[b])
                      /\ call.ret[k]["match_score"] =
                            Float(Round2(NeutralTotal))
                      /\ RemoveAt(call.ret, k) =
                            rank_candidates(RemoveAt(call.candidates, b),
                                            call.job_requirements)

\* the call in progress is one that writes to the index
IsUpsertCall ==
    call.op \in {"upload_resume_from_file", "batch_upsert_resumes"}

\* the last of the vectors that carries the id
LastWith(vectors, id) ==
    vectors[SetMax({k \in DOMAIN vectors : vectors[k].id = id})]

\* the ids of the vectors
IdsOf(vectors) == {vectors[k].id : k \in DOMAIN vectors}

HasFoundCandidates ==
    call.op = "find_matching_candidates" /\ ~call.ret.raised

PercentBand(match_score) ==
    IF FLe(Frac(90, 1), match_score) THEN "Excellent match"
    ELSE IF FLe(Frac(80, 1), match_score) THEN "Very good match"
    ELSE IF FLe(Frac(70, 1), match_score) THEN "Good match"
    ELSE IF FLe(Frac(60, 1), match_score) THEN "Moderate match"
    ELSE "Basic match"

\* the explanation begins with the band's words
StartsWith(s, prefix) ==
    Len(s) >= Len(prefix) /\ SubSeq(s, 1, Len(prefix)) = prefix

\* C15: for every candidate find_matching_candidates returns, the
\* explanation is the band of the candidate's match_score, the percentage
\* rounded to two decimals: 90 and more excellent, 80 and more very good,
\* 70 and more good, 60 and more moderate, basic below.
C15_BandOfReportedPercentage ==
    HasFoundCandidates =>
        \A i \in DOMAIN call.ret.value.candidates :
            StartsWith(call.ret.value.candidates[i].match_explanation,
                PercentBand(call.ret.value.candidates[i].match_score.val)
                    \o " - ")


\* the documents of the run whose batch has been collected
Collected == {j \in DOMAIN run.results : j <= run.i}

\* the collected documents up to j that failed, and those that did not
FailedUpTo(j) == {m \in Collected : m <= j /\ run.results[m].raised}
ProcessedUpTo(j) == {m \in Collected : m <= j /\ ~run.results[m].raised}

\* C16: in an ingestion, failed_files holds exactly the collected documents
\* whose download, extraction or embedding failed, each with its name and
\* the error, and processed_resumes holds the resume of every other
\* collected document, of the same batch and of the other batches; the loop
\* ends only when every listed document is done; and three documents of
\* which the second fails at the embedding give processed = 2 and failed = 1
\* with the second document's name.
C16_DocumentFailureIsolated ==
    run.pc \in {"gather", "upsert", "returned", "raised"} =>
        /\ Len(run.failed_files) = Cardinality(FailedUpTo(Len(run.results)))
        /\ Len(run.processed_resumes)
              = Cardinality(ProcessedUpTo(Len(run.results)))
        /\ \A j \in Collected :
              IF run.results[j].raised
              THEN run.failed_files[Cardinality(FailedUpTo(j))]
                      = [name |-> run.resume_files[j].name,
                         error |-> run.results[j].error]
              ELSE run.processed_resumes[Cardinality(ProcessedUpTo(j))]
                      = run.results[j].value
        /\ run.pc # "gather" =>
              \A j \in DOMAIN run.status :
                  run.status[j] = "done" /\ j \in Collected
        /\ (/\ run.pc = "returned"
            /\ Len(run.resume_files) = 3
            /\ ~run.results[1].raised
            /\ run.results[2] = Raised("embedding request failed")
            /\ ~run.results[3].raised)
           => /\ run.out.processed = 2
              /\ run.out.failed = 1
              /\ run.out.failed_files
                    = <<[name |-> run.resume_files[2].name,
                         error |-> "embedding request failed"]>>

\* C16: an ingestion of three documents has returned; the embedding of the
\* second one failed and the two others were processed
C16_Witness ==
    /\ run.pc = "returned"
    /\ Len(run.resume_files) = 3
    /\ run.results[2] = Raised("embedding request failed")
    /\ run.out.processed = 2
    /\ run.out.failed = 1
    /\ run.out.failed_files[1].name = "b.docx"


\* C17: when an ingestion has returned its summary, every resume it counts
\* as processed has exactly one record in the index under its id, the one
\* of the last processed resume with that id, and the summary counts the
\* processed resumes.
C17_ProcessedHasOneRecord ==
    (run.pc = "returned" /\ run.resume_files # <<>>) =>
        /\ run.out.processed = Len(run.processed_resumes)
        /\ \A k \in DOMAIN run.processed_resumes :
              {r \in index : r.id = run.processed_resumes[k].id}
                 = {LastWith([m \in DOMAIN run.processed_resumes |->
                                 Vector(run.processed_resumes[m].id,
                                        run.processed_resumes[m].embedding,
                                        run.processed_resumes[m].metadata)],
                             run.processed_resumes[k].id)}

\* C17: an ingestion over two batches has returned; it processed a document
\* and its copy and two other documents, while one document failed, and
\* the index holds one record for each of the three ids
C17_Witness ==
    /\ run.pc = "returned"
    /\ Len(run.resume_files) > batch_size
    /\ run.out.processed = 4
    /\ run.out.failed >= 1
    /\ ~run.results[1].raised
    /\ ~run.results[3].raised
    /\ Cardinality(index) = 3


\* C18: an ingestion never ends by raising, whichever external call fails:
\* it ends by returning a summary in which every listed document is counted
\* once, as processed or as failed, with processed + failed = total_files =
\* the number of listed documents; and the ids that were in the index
\* before the run are still in it.
C18_AlwaysReportsPartialSuccess ==
    /\ run.pc # "raised"
    /\ run.pc = "returned" =>
          /\ run.out.total_files = Len(run.resume_files)
          /\ run.out.processed + run.out.failed = run.out.total_files
          /\ \A j \in DOMAIN run.results :
                Cardinality(FailedUpTo(j)) + Cardinality(ProcessedUpTo(j)) = j
    /\ \A r \in UploadedIndex : \E x \in index : x.id = r.id


\* the documents of the run that are executing
Running == {j \in DOMAIN run.status : run.status[j] = "running"}

\* the chunk of five a document falls in, by its position in the listing
ChunkOf(j) == (j - 1) \div 5

\* C19: in an ingestion of any number of documents, at most 5 documents
\* are executing at a time; the documents are taken in consecutive chunks
\* of 5 of the listing, and a document has started only if every document
\* of the chunks before its own is done, with a resume or with a failure.
C19_ChunksOfFive ==
    run.pc \in {"gather", "upsert", "returned", "raised"} =>
        /\ Cardinality(Running) <= 5
        /\ run.i % 5 = 0
        /\ \A j \in DOMAIN run.status :
              run.status[j] # "waiting" =>
                  /\ ChunkOf(j) <= run.i \div 5
                  /\ \A m \in DOMAIN run.status :
                        ChunkOf(m) < ChunkOf(j) => run.status[m] = "done"

\* C19: five documents of a longer listing are executing and the sixth
\* one waits
C19_Witness ==
    /\ run.pc = "gather"
    /\ Len(run.status) > 5
    /\ Cardinality(Running) = 5
    /\ run.status[6] = "waiting"

\* C20: a download whose first requests fail is tried again, up to the cap
\* of 3 attempts: with fewer failures than the cap it gives the content,
\* and it raises only when the last attempt of the cap has failed; and an
\* embedding call whose first request fails is tried again as well, so that
\* one transient failure does not fail the document.
C20_BothCallsRetried ==
    /\ (IsCall("download_file_content") /\ call.is_available) =>
          /\ call.failures < 3 =>
                /\ ~call.ret.raised
                /\ call.ret.attempts = call.failures + 1
          /\ call.failures >= 3 =>
                /\ call.ret.raised
                /\ call.ret.attempts = 3
    /\ (IsCall("generate_embedding") /\ call.failures = 1) =>
          ~call.ret.raised


\* the credential a service needs is missing from the environment
Missing(credential) ==
    IsCall("construct_services") /\ credential \notin call.env

\* C21: when a credential is missing, constructing the service that needs
\* it raises: the vector store without its API key, the CrustData client
\* without its token or without the OpenAI key of its parser, the parser
\* without the OpenAI key and the Drive service without its credentials;
\* and no ingestion reports success while the Drive credentials are
\* missing.
C21_MissingCredentialFatal ==
    /\ Missing("PINECONE_API_KEY") => call.ret.pinecone_service.raised
    /\ Missing("CRUSTDATA_API_TOKEN") => call.ret.crustdata_api.raised
    /\ Missing("OPENAI_API_KEY") =>
          call.ret.openai_parser.raised /\ call.ret.crustdata_api.raised
    /\ Missing("GOOGLE_DRIVE_CREDENTIALS_PATH") =>
          /\ call.ret.drive_service.raised
          /\ call.ret.ingest.raised


\* C22: a ranking call leaves its input objects as they were given: after
\* rank_jobs the jobs of the list handed in hold the field values they had
\* before the call.
C22_RankingLeavesInputs ==
    IsCall("rank_jobs") => call.jobs = call.jobs_in


\* the experience values the CrustData filter allows
ExperienceLevels ==
    {"Less than 1 year", "1 to 2 years", "3 to 5 years", "6 to 10 years",
     "More than 10 years"}

\* the result holds the fields of the structure: job titles, keywords,
\* locations and one experience level or more, each an allowed value
HasEveryField(d) ==
    /\ {"job_titles", "keywords", "locations", "experience_levels"}
          \subseteq DOMAIN d
    /\ Len(d.experience_levels) > 0
    /\ \A i \in 1..Len(d.experience_levels) :
          d.experience_levels[i] \in ExperienceLevels

\* the model call failed or its reply is no object with every field
UnusableReply(reply) ==
    \/ reply.raised
    \/ IsNone(reply.value)
    \/ json_loads(JsonStr(strip(reply.value.val))).raised
    \/ ~HasEveryField(json_loads(JsonStr(strip(reply.value.val))).value)

\* C23: whatever the model call gives, parse_job_description returns a
\* result with every field of the structure, and when the call failed or
\* its reply is unusable the result is the rule-based fallback result of
\* the job description.
C23_ParserAlwaysFallsBack ==
    IsCall("parse_job_description") =>
        /\ HasEveryField(call.ret)
        /\ UnusableReply(call.reply) =>
              call.ret = _fallback_parsing(call.job_description)


\* the canonical range of a tier
CanonicalRange(tier) ==
    CASE tier = "entry" -> <<0, 2>>
      [] tier = "mid" -> <<2, 6>>
      [] tier = "senior" -> <<6, 10>>
      [] tier = "executive" -> <<10, 20>>

\* the range the matcher resolves a label to
ResolvedRange(label) == exp_mapping(strip(lower(label)))

\* C24: every experience label that JobDescriptionParser emits is resolved
\* by the matcher to the canonical range of the tier the label stands for,
\* and every label of the candidate-experience calculation to the
\* canonical range that holds the candidate's years.
C24_LabelsResolveToTierRange ==
    /\ IsCall("jd_parse_job_description") =>
          \A label \in call.ret.value.experience_level :
              \A tier \in DOMAIN crustdata_experience_mapping :
                  label \in crustdata_experience_mapping[tier] =>
                      ResolvedRange(label) = CanonicalRange(tier)
    /\ IsCall("_calculate_experience") /\ ~IsNone(call.ret) =>
          /\ ResolvedRange(call.ret.val) \in
                {CanonicalRange(tier) :
                    tier \in {"entry", "mid", "senior", "executive"}}
          /\ ResolvedRange(call.ret.val)[1]
                <= TotalMonths(call.employer_months) \div 12
          /\ \/ TotalMonths(call.employer_months) \div 12
                   < ResolvedRange(call.ret.val)[2]
             \/ ResolvedRange(call.ret.val) = CanonicalRange("executive")

\* an indicator without a digit, a qualitative keyword, occurs in the text
HasTierKeyword(text) ==
    \E level \in DOMAIN experience_indicators :
        \E indicator \in experience_indicators[level] :
            /\ In(indicator, text)
            /\ \A i \in 1..Len(indicator) : ~IsDigit(indicator, i)

\* a tier keyword of _determine_experience_level occurs in the text
HasLevelKeyword(text) ==
    AnyIn(<<"senior", "lead", "principal", "staff", "director", "vp", "cto",
            "ceo", "executive", "junior", "intern", "entry", "graduate">>,
          lower(text))

\* C25: when a text carries both a numeric year mention and a tier
\* keyword, the extracted experience is the one of the numeric signal
\* alone: the labels of the year patterns in _extract_experience_level, the
\* level of the years in _determine_experience_level.
C25_NumericSignalAlone ==
    /\ IsCall("jd_parse_job_description")
          /\ HasTierKeyword(_clean_text(call.job_description))
          /\ MinYears(_clean_text(call.job_description)) # {} =>
             call.ret.value.experience_level
                = NumericLabels(_clean_text(call.job_description))
    /\ IsCall("_determine_experience_level")
          /\ HasLevelKeyword(call.text) /\ ~IsNone(call.years) =>
             call.ret = LevelOfYears(call.years)

\* C26: parse_job_description does not raise, and for a text without any
\* signal it returns no titles, no skills, no experience level and no
\* location.
C26_EmptyFeatureSet ==
    IsCall("jd_parse_job_description") =>
        /\ ~call.ret.raised
        /\ _clean_text(call.job_description) = "" =>
              /\ call.ret.value.job_titles = {}
              /\ call.ret.value.skills = {}
              /\ call.ret.value.experience_level = {}
              /\ call.ret.value.location = {}


\* C27: every job that rank_jobs returns has a match_score greater than 0
\* and at most 100.
C27_JobScoreInRange ==
    IsCall("rank_jobs") =>
        \A i \in 1..Len(call.ret) :
            /\ FLt(Zero, call.ret[i].match_score)
            /\ FLe(call.ret[i].match_score, Hundred)

\* a ranking has been returned in which one job has nothing but the
\* experience score: its match_score is 10 or less
C27_Witness ==
    /\ IsCall("rank_jobs")
    /\ \E i \in 1..Len(call.ret) :
          FLe(call.ret[i].match_score, Frac(10, 1))


\* an upload call has returned
IsUploadCall ==
    call.op \in {"upload_resume_from_file", "upload_single_resume_by_url"}

\* C28: an upload returns its dictionary whatever fails: with success
\* False it carries the error text and the index is as it was before the
\* call; with success True the record with the returned resume_id has
\* been upserted and is in the index.
C28_UploadReturnsAndIndex ==
    IsUploadCall =>
        /\ ~call.ret.success =>
              /\ call.ret.error # ""
              /\ IsNone(call.ret.resume_id)
              /\ call.upserted = <<>>
              /\ index = call.before
        /\ call.ret.success =>
              /\ Len(call.upserted) = 1
              /\ call.upserted[1].id = call.ret.resume_id.val
              /\ call.upserted[1] \in index
              /\ index = index_upsert(call.before, call.upserted)

\* an upload by URL has failed at its upsert request, on an index that
\* holds a record
C28_Witness ==
    /\ call.op = "upload_single_resume_by_url"
    /\ ~call.ret.success
    /\ call.ret.error = "upsert request failed"
    /\ call.before # {}


\* C29: for every cap max_retries a download makes at most max_retries
\* attempts; it stops at the first attempt that succeeds and returns the
\* content of the file; it raises once every attempt of the cap has
\* failed; and it never returns without content.
C29_DownloadForEveryCap ==
    (IsCall("download_file_content_retries") /\ call.is_available) =>
        /\ call.ret.attempts <= Max2(call.max_retries, 0)
        /\ ~call.ret.raised => call.ret.returns = "bytes"
        /\ call.failures < call.max_retries =>
              /\ ~call.ret.raised
              /\ call.ret.value = call.file_content
              /\ call.ret.attempts = call.failures + 1
        /\ call.failures >= call.max_retries => call.ret.raised


\* a search is under way or has returned
IsSearch ==
    call.op \in {"search_candidates_from_job_description", "search_candidates"}

\* C30: a candidate search sends the full request and then at most one
\* more, the simplified or fallback request, and that one only after the
\* full request was answered with zero profiles while more than two
\* filters were applied; a search whose last request failed returns an
\* empty profiles list and a message; and every search returns.
C30_SearchSafety ==
    IsSearch =>
        /\ Len(call.requests) \in 1..2
        /\ call.requests[1] = call.filters
        /\ Len(call.requests) = 2 =>
              /\ call.replies[1].kind = "json"
              /\ Len(call.replies[1].profiles) = 0
              /\ Len(call.filters) > 2
              /\ Len(call.requests[2]) <= 2
        /\ call.pc = "done" =>
              /\ Len(call.replies) = Len(call.requests)
              /\ call.replies[Len(call.replies)].kind # "json" =>
                    /\ call.ret.profiles = <<>>
                    /\ call.ret.message # ""

C30_SearchTerminates ==
    [](IsSearch => <>(IsSearch /\ call.pc = "done"))

C30_SearchBounded == []C30_SearchSafety /\ C30_SearchTerminates

\* a search has sent its second request and that request failed
C30_Witness ==
    /\ IsSearch
    /\ call.pc = "done"
    /\ Len(call.requests) = 2
    /\ call.replies[2].kind = "timeout"
====
